---- MODULE Spec2Model ----
(***************************************************************************)
(* Model of the editing engine embedded in writer.py (the script block of  *)
(* the editor page): the history manager (createHistoryEntry, customUndo,  *)
(* customRedo), the search engine (clearSearch, searchAndHighlight,        *)
(* replaceSelection, replaceAll) and the deferred continuations            *)
(* (setTimeout) they schedule.                                             *)
(*                                                                         *)
(* The document is the DOM tree below the editor root: a sequence of nodes,*)
(* each a text node, a <br>, a highlight span or a <div> with children.    *)
(* Text is a sequence of one-character strings.  Serialized markup         *)
(* (innerHTML) is a sequence of tokens: a token is a character of text or  *)
(* a whole tag.                                                            *)
(***************************************************************************)
EXTENDS Integers, Sequences, FiniteSets, TLC

\* ------------------------------------------------------------------ bounds
MaxText == 2      \* characters of text the user may have typed into the document
MaxHist == 4      \* history entries kept while exploring
MaxTimers == 3    \* deferred continuations pending at once
MaxSteps == 6     \* steps of a behaviour of FullSpec
MaxSearchText == 3  \* characters in the first block of a searched document
MaxBlockText == 2 \* characters in its second block
MaxReplaceSteps == 6 \* operations and timer callbacks after a document was loaded
MaxSavedOffset == 4 \* the largest character offset of a saved selection
MaxTableSteps == 5 \* table operations and callbacks after a document was loaded
MaxTables == 2    \* tables in a document
MaxInsert == 2    \* rows, and columns, of an inserted table
MaxRows == 2      \* rows a table grows to
MaxCols == 2      \* cells a row grows to
MaxWordText == 3   \* characters in the first block of a counted document
MaxCurrentSteps == 7    \* steps of a behaviour of CurrentSpec
MaxAlignSteps == 3      \* steps of a behaviour of AlignSpec
MaxLoadSteps == 5
MaxHandlers == 2
MaxSessionSteps == 6

Chars == {"a", "b"}                             \* what the user types
SearchChars == {"a", "A"}                       \* what a searched document holds
SearchTerms == {<<>>, <<"a">>, <<"a", "a">>}
ReplaceTexts == {<<"b">>}

\* ------------------------------------------------------------------ DOM
TextNode(s) == [kind |-> "text", text |-> s, kids |-> <<>>, sr |-> 0]
BrNode == [kind |-> "br", text |-> <<>>, kids |-> <<>>, sr |-> 0]
\* A highlight span holding one text node; sr > 0 is its place in searchResults
\* (the array holds a reference to this very element), sr = 0 a span that no
\* entry of searchResults refers to (one rebuilt from markup).
HlNode(s, i) == [kind |-> "hl", text |-> s, kids |-> <<>>, sr |-> i]
DivNode(k) == [kind |-> "div", text |-> <<>>, kids |-> k, sr |-> 0]
PreNode(k) == [kind |-> "pre", text |-> <<>>, kids |-> k, sr |-> 0]

DivOpen == "<div>"
DivClose == "</div>"
BrTag == "<br>"
HlOpen == "<span class=\"search-highlight\" style=\"background-color: rgb(255, 255, 0);\">"
HlClose == "</span>"
PreOpen == "<pre>"
PreClose == "</pre>"
CloseTags == {DivClose, HlClose, PreClose}

\* The document the page starts with.
EmptyDocument == <<DivNode(<<BrNode>>)>>

RECURSIVE TextContent(_)
\* element.textContent: the text of all text nodes in document order
TextContent(ns) ==
    IF ns = <<>> THEN <<>>
    ELSE LET n == Head(ns) IN
         (IF n.kind \in {"text", "hl"} THEN n.text ELSE TextContent(n.kids))
            \o TextContent(Tail(ns))

\* The tags of the elements of a table, of the paragraph insertTable puts
\* after it and of the handles of an active table, each one token of markup.
\* They are written by the innerHTML getter only: no history entry or file
\* with a table is parsed in this model.
OpenTag(kind) ==
    CASE kind = "table" -> "<table>"
      [] kind = "tr" -> "<tr>"
      [] kind = "td" -> "<td>"
      [] kind = "p" -> "<p>"
      [] kind = "table-handle" -> "<div class=table-handle>"
      [] kind = "table-drag-handle" -> "<div class=table-drag-handle>"

CloseTag(kind) ==
    CASE kind = "table" -> "</table>"
      [] kind = "tr" -> "</tr>"
      [] kind = "td" -> "</td>"
      [] kind = "p" -> "</p>"
      [] kind \in {"table-handle", "table-drag-handle"} -> DivClose

RECURSIVE InnerHTML(_)
\* The innerHTML getter: the serialized markup of a sequence of nodes.
InnerHTML(ns) ==
    IF ns = <<>> THEN <<>>
    ELSE LET n == Head(ns) IN
         (CASE n.kind = "text" -> n.text
            [] n.kind = "br" -> <<BrTag>>
            [] n.kind = "hl" -> <<HlOpen>> \o n.text \o <<HlClose>>
            [] n.kind = "div" -> <<DivOpen>> \o InnerHTML(n.kids) \o <<DivClose>>
            [] n.kind = "pre" -> <<PreOpen>> \o InnerHTML(n.kids) \o <<PreClose>>
            [] OTHER -> <<OpenTag(n.kind)>> \o InnerHTML(n.kids) \o <<CloseTag(n.kind)>>)
            \o InnerHTML(Tail(ns))

RECURSIVE ParseNodes(_)
\* The fragment parser behind the innerHTML setter: parses tokens up to the
\* first unmatched closing tag; consecutive characters become one text node,
\* so no text node is empty and no two text nodes are adjacent.
ParseNodes(toks) ==
    IF toks = <<>> \/ Head(toks) \in CloseTags
    THEN [nodes |-> <<>>, rest |-> toks]
    ELSE LET t == Head(toks) IN
         IF t = BrTag
         THEN LET r == ParseNodes(Tail(toks))
              IN [nodes |-> <<BrNode>> \o r.nodes, rest |-> r.rest]
         ELSE IF t \in {DivOpen, HlOpen, PreOpen}
         THEN LET inner == ParseNodes(Tail(toks))
                  after == ParseNodes(IF inner.rest = <<>> THEN <<>> ELSE Tail(inner.rest))
                  el == IF t = DivOpen THEN DivNode(inner.nodes)
                        ELSE IF t = PreOpen THEN PreNode(inner.nodes)
                        ELSE HlNode(TextContent(inner.nodes), 0)
              IN [nodes |-> <<el>> \o after.nodes, rest |-> after.rest]
         ELSE LET r == ParseNodes(Tail(toks))
              IN IF r.nodes # <<>> /\ Head(r.nodes).kind = "text"
                 THEN [nodes |-> <<TextNode(<<t>> \o Head(r.nodes).text)>> \o Tail(r.nodes),
                       rest |-> r.rest]
                 ELSE [nodes |-> <<TextNode(<<t>>)>> \o r.nodes, rest |-> r.rest]

RECURSIVE SetInnerHTML(_)
\* editor.innerHTML = markup: the children the editor has afterwards.  A
\* closing tag with no open element is dropped.
SetInnerHTML(toks) ==
    LET r == ParseNodes(toks)
    IN IF r.rest = <<>> THEN r.nodes
       ELSE LET more == SetInnerHTML(Tail(r.rest))
            IN IF r.nodes # <<>> /\ more # <<>>
                  /\ r.nodes[Len(r.nodes)].kind = "text" /\ Head(more).kind = "text"
               THEN SubSeq(r.nodes, 1, Len(r.nodes) - 1)
                    \o <<TextNode(r.nodes[Len(r.nodes)].text \o Head(more).text)>>
                    \o Tail(more)
               ELSE r.nodes \o more

RECURSIVE Normalize(_)
\* Node.normalize(): empty text nodes are removed and adjacent text nodes
\* merged, in the whole subtree.
Normalize(ns) ==
    IF ns = <<>> THEN <<>>
    ELSE LET n == Head(ns)
             r == Normalize(Tail(ns))
         IN IF n.kind = "text"
            THEN IF n.text = <<>> THEN r
                 ELSE IF r # <<>> /\ Head(r).kind = "text"
                      THEN <<TextNode(n.text \o Head(r).text)>> \o Tail(r)
                      ELSE <<n>> \o r
            ELSE IF n.kind = "div" THEN <<DivNode(Normalize(n.kids))>> \o r
            ELSE <<n>> \o r

RECURSIVE HighlightCount(_)
\* editor.querySelectorAll('.search-highlight').length
HighlightCount(ns) ==
    IF ns = <<>> THEN 0
    ELSE LET n == Head(ns) IN
         (IF n.kind = "hl" THEN 1
          ELSE IF n.kind = "div" THEN HighlightCount(n.kids) ELSE 0)
            + HighlightCount(Tail(ns))

RECURSIVE ReplaceHighlights(_)
\* The loop of clearSearch: every highlight span is replaced by a text node
\* holding the span's textContent.
ReplaceHighlights(ns) ==
    IF ns = <<>> THEN <<>>
    ELSE LET n == Head(ns) IN
         <<IF n.kind = "hl" THEN TextNode(n.text)
           ELSE IF n.kind = "div" THEN DivNode(ReplaceHighlights(n.kids))
           ELSE n>> \o ReplaceHighlights(Tail(ns))

\* clearSearch() that resets the variables and leaves the spans in place
ClearSearchDom_KeepsSpans(ns) == ns

\* The document clearSearch leaves: normalize() runs only if a highlight was found.
ClearSearchDom(ns) ==
    IF HighlightCount(ns) > 0 THEN Normalize(ReplaceHighlights(ns)) ELSE ns

\* ------------------------------------------------------------------ strings
\* Does term occur in text at (0-based) position i ?
OccursAt(text, term, i) ==
    /\ i + Len(term) <= Len(text)
    /\ SubSeq(text, i + 1, i + Len(term)) = term

\* String.prototype.indexOf(term, from): the first position >= from, or -1
IndexOf(text, term, from) ==
    LET hits == {i \in from..Len(text) : OccursAt(text, term, i)}
    IN IF hits = {} THEN -1 ELSE CHOOSE i \in hits : \A j \in hits : i <= j

RECURSIVE IndexLoop(_, _, _)
\* The inner while loop of searchAndHighlight: the indices pushed for one text
\* node, starting from a first index; the next search starts at index + 1.
IndexLoop(text, term, index) ==
    IF index = -1 THEN <<>>
    ELSE <<index>> \o IndexLoop(text, term, IndexOf(text, term, index + 1))

\* The matches searchAndHighlight records for one text node.
NodeMatches(text, term) == IndexLoop(text, term, IndexOf(text, term, 0))

RECURSIVE MatchCount(_, _)
\* count: the matches pushed over all text nodes the TreeWalker visits
MatchCount(ns, term) ==
    IF ns = <<>> THEN 0
    ELSE LET n == Head(ns) IN
         (IF n.kind = "div" THEN MatchCount(n.kids, term)
          ELSE IF n.kind \in {"text", "hl"} THEN Len(NodeMatches(n.text, term))
          ELSE 0) + MatchCount(Tail(ns), term)

RECURSIVE HighlightText(_, _, _, _, _)
\* The highlight loop over the matches of one text node, last match first.
\* node is what is left of the original text node, placed the pieces already
\* split off behind it, idxs the indices still to do (descending), k the
\* number of spans pushed to searchResults so far.  splitText(offset) raises
\* IndexSizeError when offset exceeds the node's length: the loop, and the
\* whole function, end there.
HighlightText(node, placed, idxs, term, k) ==
    IF idxs = <<>>
    THEN [nodes |-> <<TextNode(node)>> \o placed, k |-> k, threw |-> FALSE]
    ELSE LET index == Head(idxs) IN
         IF index > Len(node)
         THEN [nodes |-> <<TextNode(node)>> \o placed, k |-> k, threw |-> TRUE]
         ELSE LET beforeNode == SubSeq(node, index + 1, Len(node))
                  left == SubSeq(node, 1, index)
              IN IF Len(term) > Len(beforeNode)
                 THEN [nodes |-> <<TextNode(left), TextNode(beforeNode)>> \o placed,
                       k |-> k, threw |-> TRUE]
                 ELSE HighlightText(left,
                        <<HlNode(SubSeq(beforeNode, 1, Len(term)), k + 1),
                          TextNode(SubSeq(beforeNode, Len(term) + 1, Len(beforeNode)))>>
                            \o placed,
                        Tail(idxs), term, k + 1)

\* A sequence back to front
Reverse(s) == [i \in 1..Len(s) |-> s[Len(s) + 1 - i]]

RECURSIVE HighlightNodes(_, _, _)
\* The highlight loop over the whole document: matches are taken from the
\* last to the first, so the nodes are done back to front.
HighlightNodes(ns, term, k) ==
    IF ns = <<>> THEN [nodes |-> <<>>, k |-> k, threw |-> FALSE]
    ELSE LET n == ns[Len(ns)]
             front == SubSeq(ns, 1, Len(ns) - 1)
             r == IF n.kind = "text"
                  THEN HighlightText(n.text, <<>>, Reverse(NodeMatches(n.text, term)), term, k)
                  ELSE IF n.kind = "div"
                  THEN LET d == HighlightNodes(n.kids, term, k)
                       IN [nodes |-> <<DivNode(d.nodes)>>, k |-> d.k, threw |-> d.threw]
                  ELSE [nodes |-> <<n>>, k |-> k, threw |-> FALSE]
         IN IF r.threw
            THEN [nodes |-> front \o r.nodes, k |-> r.k, threw |-> TRUE]
            ELSE LET f == HighlightNodes(front, term, r.k)
                 IN [nodes |-> f.nodes \o r.nodes, k |-> f.k, threw |-> f.threw]

RECURSIVE SpanStart(_, _)
\* The number of characters before the span searchResults[id] in the
\* document, or -1 if that span is not in the document (any more).
SpanStart(ns, id) ==
    IF ns = <<>> THEN -1
    ELSE LET n == Head(ns) IN
         IF n.kind = "hl" /\ n.sr = id THEN 0
         ELSE IF n.kind = "div" /\ SpanStart(n.kids, id) # -1 THEN SpanStart(n.kids, id)
         ELSE LET r == SpanStart(Tail(ns), id)
              IN IF r = -1 THEN -1 ELSE Len(TextContent(<<n>>)) + r

RECURSIVE SpanText(_, _)
\* The textContent of the span searchResults[id] while it is in the document
SpanText(ns, id) ==
    IF ns = <<>> THEN <<>>
    ELSE LET n == Head(ns) IN
         IF n.kind = "hl" /\ n.sr = id THEN n.text
         ELSE IF n.kind = "div" /\ SpanStart(n.kids, id) # -1 THEN SpanText(n.kids, id)
         ELSE SpanText(Tail(ns), id)

RECURSIVE InsertTextInSpan(_, _, _)
\* document.execCommand('insertText', false, text) with the contents of the
\* span searchResults[id] selected: the span's text becomes the inserted text.
InsertTextInSpan(ns, id, text) ==
    IF ns = <<>> THEN <<>>
    ELSE LET n == Head(ns) IN
         <<IF n.kind = "hl" /\ n.sr = id THEN HlNode(text, id)
           ELSE IF n.kind = "div" THEN DivNode(InsertTextInSpan(n.kids, id, text))
           ELSE n>> \o InsertTextInSpan(Tail(ns), id, text)

RECURSIVE ExpandReplacement(_, _, _, _)
\* What String.prototype.replace substitutes for one match when the
\* replacement is a string: $$ stands for "$", $& for the matched text, $`
\* for the text before the match and $' for the text after it; the escaped
\* term has no capture groups, so any other "$" stands for itself.
ExpandReplacement(replaceText, matched, before, after) ==
    IF replaceText = <<>> THEN <<>>
    ELSE IF Head(replaceText) = "$" /\ Len(replaceText) >= 2
              /\ replaceText[2] \in {"$", "&", "`", "'"}
         THEN (CASE replaceText[2] = "$" -> <<"$">>
                 [] replaceText[2] = "&" -> matched
                 [] replaceText[2] = "`" -> before
                 [] replaceText[2] = "'" -> after)
              \o ExpandReplacement(SubSeq(replaceText, 3, Len(replaceText)),
                                   matched, before, after)
         ELSE <<Head(replaceText)>>
              \o ExpandReplacement(Tail(replaceText), matched, before, after)

RECURSIVE ReplaceFrom(_, _, _, _)
\* The global replace from position i on: matches are taken left to right
\* and do not overlap
ReplaceFrom(content, term, replaceText, i) ==
    IF i >= Len(content) THEN <<>>
    ELSE IF OccursAt(content, term, i)
         THEN ExpandReplacement(replaceText, term, SubSeq(content, 1, i),
                                SubSeq(content, i + Len(term) + 1, Len(content)))
              \o ReplaceFrom(content, term, replaceText, i + Len(term))
         ELSE <<content[i + 1]>> \o ReplaceFrom(content, term, replaceText, i + 1)

\* content.replace(new RegExp(escapedSearch, 'g'), replaceText): the escaped
\* term matches literally
ReplaceLiteral(content, term, replaceText) == ReplaceFrom(content, term, replaceText, 0)

RECURSIVE LiteralCount(_, _)
\* (content.match(regexSearch) || []).length
LiteralCount(content, term) ==
    IF content = <<>> THEN 0
    ELSE IF OccursAt(content, term, 0)
         THEN 1 + LiteralCount(SubSeq(content, Len(term) + 1, Len(content)), term)
         ELSE LiteralCount(Tail(content), term)

RECURSIVE TypeAtEnd(_, _)
\* The user types character c with the caret at the end of the document: it
\* goes to the end of the last block, into the text node there or, after a
\* <br> (which the typed text replaces) or an element, into a new text node.
TypeAtEnd(ns, c) ==
    IF ns = <<>> THEN <<TextNode(<<c>>)>>
    ELSE LET n == ns[Len(ns)]
             front == SubSeq(ns, 1, Len(ns) - 1)
         IN CASE n.kind = "div" -> front \o <<DivNode(TypeAtEnd(n.kids, c))>>
              [] n.kind = "text" -> front \o <<TextNode(n.text \o <<c>>)>>
              [] n.kind = "br" -> front \o <<TextNode(<<c>>)>>
              [] n.kind = "hl" -> ns \o <<TextNode(<<c>>)>>

\* ------------------------------------------------------------------ state
VARIABLES
    editor,                 \* the children of the editor root (the DOM)
    selection,              \* window.getSelection(), as character offsets
    editorHistory,          \* var editorHistory
    historyIndex,           \* var historyIndex
    isPerformingUndoRedo,   \* var isPerformingUndoRedo
    searchResults,          \* var searchResults: references to highlight spans
    searchIndex,            \* var searchIndex
    currentSearchText,      \* var currentSearchText
    timers,                 \* the setTimeout callbacks not yet run, oldest first
    call,                   \* what the last step did: the operation, its argument,
                            \* its result and what it sent to the host
    run,                    \* the run of undo/redo calls since the last recorded edit
    steps,                  \* operations and callbacks run so far (counted by FullSpec)
    activeTable,            \* var activeTable: the id of a table element, 0 for null
    isDragging,             \* var isDragging
    isResizing,             \* var isResizing
    dragStartY,             \* var dragStartY
    tableStyle,             \* className and style.width of the tables, by table id
    batch,                  \* the replaceAll last made and what has followed it
    handlers,               \* how many times setupTableEventHandlers has registered
                            \* its listeners (counted up to MaxHandlers)
    tableToolbarVisible     \* the host's self.table_toolbar: whether it is shown

vars == <<editor, selection, editorHistory, historyIndex, isPerformingUndoRedo,
          searchResults, searchIndex, currentSearchText, timers, call, run, steps,
          activeTable, isDragging, isResizing, dragStartY, tableStyle, batch,
          handlers, tableToolbarVisible>>

\* The selection as saveSelection measures it: character offsets from the
\* start of the editor; none when selection.rangeCount is 0.
NoSelection == [none |-> TRUE, start |-> 0, end |-> 0, collapsed |-> TRUE]
Selection(s, e) == [none |-> FALSE, start |-> s, end |-> e, collapsed |-> (s = e)]

\* saveSelection(): null without a range, else the offsets of the range
SaveSelection(sel) == sel

Min(a, b) == IF a <= b THEN a ELSE b

RECURSIVE TextNodes(_)
\* The values of the text nodes a TreeWalker with SHOW_TEXT visits, in
\* document order; a highlight span holds one text node
TextNodes(ns) ==
    IF ns = <<>> THEN <<>>
    ELSE LET n == Head(ns) IN
         (CASE n.kind \in {"text", "hl"} -> <<n.text>>
            [] n.kind = "br" -> <<>>
            [] OTHER -> TextNodes(n.kids))
            \o TextNodes(Tail(ns))

\* A boundary point: node is the place of a text node among TextNodes, or 0
\* for the editor element itself
Position(node, offset) == [node |-> node, offset |-> offset]

RECURSIVE WalkTextNodes_AbsoluteOffset(_, _, _, _)
\* The loop returning charOffset itself as the offset within the node
WalkTextNodes_AbsoluteOffset(values, i, currentOffset, charOffset) ==
    IF i > Len(values) THEN Position(-1, 0)
    ELSE IF currentOffset + Len(values[i]) >= charOffset
         THEN Position(i, charOffset)
         ELSE WalkTextNodes_AbsoluteOffset(values, i + 1, currentOffset + Len(values[i]),
                                           charOffset)

RECURSIVE WalkTextNodes_Strict(_, _, _, _)
\* The loop taking a text node only if the offset lies before its end
WalkTextNodes_Strict(values, i, currentOffset, charOffset) ==
    IF i > Len(values) THEN Position(-1, 0)
    ELSE IF currentOffset + Len(values[i]) > charOffset
         THEN Position(i, charOffset - currentOffset)
         ELSE WalkTextNodes_Strict(values, i + 1, currentOffset + Len(values[i]), charOffset)

RECURSIVE WalkTextNodes(_, _, _, _)
\* The loop of getNodeAndOffsetAtCharacterOffset from the i-th text node on;
\* node -1 when the loop ends without a result
WalkTextNodes(values, i, currentOffset, charOffset) ==
    IF i > Len(values) THEN Position(-1, 0)
    ELSE IF currentOffset + Len(values[i]) >= charOffset
         THEN Position(i, charOffset - currentOffset)
         ELSE WalkTextNodes(values, i + 1, currentOffset + Len(values[i]), charOffset)

\* getNodeAndOffsetAtCharacterOffset(editor, charOffset)
GetNodeAndOffsetAtCharacterOffset(ns, charOffset) ==
    LET values == TextNodes(ns)
        found == WalkTextNodes(values, 1, 0, charOffset)
    IN IF found.node # -1 THEN found
       ELSE IF ns # <<>>
            THEN IF ns[Len(ns)].kind = "text"
                 THEN Position(Len(values), Len(values[Len(values)]))
                 ELSE Position(0, Len(ns))
            ELSE Position(0, 0)

\* Is the boundary point one of the document ?  range.setStart and setEnd
\* raise IndexSizeError for an offset beyond the node.
ValidPosition(ns, pos) ==
    IF pos.node = 0 THEN pos.offset \in 0..Len(ns)
    ELSE /\ pos.node \in 1..Len(TextNodes(ns))
         /\ pos.offset \in 0..Len(TextNodes(ns)[pos.node])

RECURSIVE LengthBefore(_, _)
\* The length of the first k of the values
LengthBefore(values, k) ==
    IF k = 0 THEN 0 ELSE LengthBefore(values, k - 1) + Len(values[k])

\* The character offset saveSelection measures for a boundary point
CharacterOffsetOf(ns, pos) ==
    IF pos.node = 0 THEN Len(TextContent(SubSeq(ns, 1, pos.offset)))
    ELSE LengthBefore(TextNodes(ns), pos.node - 1) + pos.offset

\* restoreSelection(selectionInfo): what it returns and the selection
\* afterwards.  The offsets are clamped to the length of the text the editor
\* has now; a range that cannot be set is caught and false returned.
RestoreSelectionResult(sel, info, ns) ==
    IF info.none THEN [ret |-> FALSE, selection |-> sel]
    ELSE LET maxOffset == Len(TextContent(ns))
             startPosition == GetNodeAndOffsetAtCharacterOffset(ns, Min(info.start, maxOffset))
             endPosition == GetNodeAndOffsetAtCharacterOffset(ns, Min(info.end, maxOffset))
         IN IF ValidPosition(ns, startPosition) /\ ValidPosition(ns, endPosition)
            THEN [ret |-> TRUE,
                  selection |-> Selection(CharacterOffsetOf(ns, startPosition),
                                          CharacterOffsetOf(ns, endPosition))]
            ELSE [ret |-> FALSE, selection |-> sel]

RestoreSelection(sel, info, ns) == RestoreSelectionResult(sel, info, ns).selection

\* The selection after the editor's children were replaced (innerHTML
\* assignment): a range inside the removed nodes collapses to the start of
\* the editor.
SelectionAfterReplace(sel) == IF sel.none THEN sel ELSE Selection(0, 0)

\* Results of an operation
RetNone == [kind |-> "none", bool |-> FALSE, num |-> 0]
RetBool(b) == [kind |-> "bool", bool |-> b, num |-> 0]
RetNum(n) == [kind |-> "num", bool |-> FALSE, num |-> n]
RetThrow == [kind |-> "throw", bool |-> FALSE, num |-> 0]

\* What a step reports: op the operation, arg its (search) argument, ret its
\* result, posted the contentChanged messages it sent, recorded the history
\* entries it pushed, trimmed whether it cut the history, cleared whether
\* clearSearch found highlights to remove.
Call(op, arg, ret, posted, recorded, trimmed, cleared) ==
    [op |-> op, arg |-> arg, ret |-> ret, posted |-> posted,
     recorded |-> recorded, trimmed |-> trimmed, cleared |-> cleared]

\* setTimeout(callback, delay): kind names the callback
Timer(kind, delay, sel, term) == [kind |-> kind, delay |-> delay, sel |-> sel, term |-> term]

InitialEntryDelay == 100
ResetFlagDelay == 10
ResearchDelay == 10

\* Timers run in the order of their deadlines: a timer cannot run before one
\* that was set earlier with the same or a shorter delay.
CanFire(i) == \A j \in 1..(i - 1) : timers[j].delay > timers[i].delay

RemoveAt(s, i) == SubSeq(s, 1, i - 1) \o SubSeq(s, i + 1, Len(s))

\* ------------------------------------------------------------------ history
\* createHistoryEntry() setting historyIndex = editorHistory.length after the
\* push, one past the new entry
CreateHistoryEntry_IndexIsLength(history, index, replaying, content, sel) ==
    IF replaying
    THEN [history |-> history, index |-> index, recorded |-> 0, trimmed |-> FALSE]
    ELSE LET historyEntry == [content |-> content, selection |-> SaveSelection(sel)]
             trim == index >= 0 /\ index < Len(history) - 1
             kept == IF trim THEN SubSeq(history, 1, index + 1) ELSE history
         IN [history |-> Append(kept, historyEntry), index |-> Len(kept) + 1,
             recorded |-> 1, trimmed |-> trim]

\* createHistoryEntry() without the slice: the entries past the index stay
CreateHistoryEntry_KeepsTail(history, index, replaying, content, sel) ==
    IF replaying
    THEN [history |-> history, index |-> index, recorded |-> 0, trimmed |-> FALSE]
    ELSE LET historyEntry == [content |-> content, selection |-> SaveSelection(sel)]
             trim == index >= 0 /\ index < Len(history) - 1
         IN [history |-> Append(history, historyEntry), index |-> Len(history),
             recorded |-> 1, trimmed |-> trim]

\* createHistoryEntry() without its first line, the return while replaying
CreateHistoryEntry_IgnoresFlag(history, index, replaying, content, sel) ==
    LET historyEntry == [content |-> content, selection |-> SaveSelection(sel)]
        trim == index >= 0 /\ index < Len(history) - 1
        kept == IF trim THEN SubSeq(history, 1, index + 1) ELSE history
    IN [history |-> Append(kept, historyEntry), index |-> Len(kept),
        recorded |-> 1, trimmed |-> trim]

\* createHistoryEntry(): the history afterwards.  content is the editor's
\* innerHTML and sel the selection at the time of the call.
CreateHistoryEntry(history, index, replaying, content, sel) ==
    IF replaying
    THEN [history |-> history, index |-> index, recorded |-> 0, trimmed |-> FALSE]
    ELSE LET historyEntry == [content |-> content, selection |-> SaveSelection(sel)]
             trim == index >= 0 /\ index < Len(history) - 1
             kept == IF trim THEN SubSeq(history, 1, index + 1) ELSE history
         IN [history |-> Append(kept, historyEntry), index |-> Len(kept),
             recorded |-> 1, trimmed |-> trim]

\* The entry at a (0-based) index; reading past the array gives undefined.
HasEntry(history, index) == index >= 0 /\ index < Len(history)
EntryAt(history, index) == history[index + 1]

\* The guard of customUndo with historyIndex < 0 for historyIndex <= 0
NothingToUndo_AllowsFirst(history, index) == Len(history) = 0 \/ index < 0

\* The guards of customUndo and customRedo: nothing to undo, nothing to redo
NothingToUndo(history, index) == Len(history) = 0 \/ index <= 0
NothingToRedo(history, index) == Len(history) = 0 \/ index >= Len(history) - 1

\* The length of the history after a createHistoryEntry that records
LenAfterEntry == IF historyIndex >= 0 /\ historyIndex < Len(editorHistory) - 1
                 THEN historyIndex + 2 ELSE Len(editorHistory) + 1

\* The replaceAll last made: phase "replaced" after the call, "recorded" once
\* its deferred createHistoryEntry has run, "undone" after a customUndo that
\* follows, "redone" after the customRedo after that; searched tells whether
\* a searchAndHighlight of the same term came right before, before and after
\* are the editor's innerHTML right before and right after the call.
NoBatch == [phase |-> "none", term |-> <<>>, repl |-> <<>>, searched |-> FALSE,
            before |-> <<>>, after |-> <<>>, records |-> 0]

\* The run of undo/redo calls that follows an edit and its history record:
\* content and index are those right after the record, depth the undos not
\* yet redone, peak the largest depth reached.
\* A document without tables has no table styles
NoStyles == <<>>
NoRun == [active |-> FALSE, depth |-> 0, peak |-> 0, content |-> <<>>, index |-> -1]
RunAfter(ns, history, index) ==
    IF HasEntry(history, index) /\ index = Len(history) - 1
       /\ EntryAt(history, index).content = InnerHTML(ns)
    THEN [active |-> TRUE, depth |-> 0, peak |-> 0, content |-> InnerHTML(ns), index |-> index]
    ELSE NoRun

Init ==
    /\ editor = EmptyDocument
    /\ selection = NoSelection
    /\ editorHistory = <<>>
    /\ historyIndex = -1
    /\ isPerformingUndoRedo = FALSE
    /\ searchResults = <<>>
    /\ searchIndex = -1
    /\ currentSearchText = <<>>
    /\ timers = <<Timer("initialEntry", InitialEntryDelay, NoSelection, <<>>)>>
    /\ call = Call("load", <<>>, RetNone, 0, 0, FALSE, FALSE)
    /\ run = NoRun
    /\ steps = 0
    /\ activeTable = 0
    /\ isDragging = FALSE
    /\ isResizing = FALSE
    /\ dragStartY = 0
    /\ tableStyle = NoStyles
    /\ batch = NoBatch
    /\ handlers = 1
    /\ tableToolbarVisible = FALSE

\* The input listener registered at DOMContentLoaded (line 1024): it calls
\* createHistoryEntry unless an undo/redo is in progress.
InputListener(history, index, replaying, content, sel) ==
    IF ~replaying
    THEN CreateHistoryEntry(history, index, replaying, content, sel)
    ELSE [history |-> history, index |-> index, recorded |-> 0, trimmed |-> FALSE]

\* The run after a step other than undo and redo that leaves document dom
\* and history (history, index)
RunNext(dom, history, index) ==
    IF dom = editor /\ history = editorHistory /\ index = historyIndex
    THEN run
    ELSE RunAfter(dom, history, index)

\* ------------------------------------------------------------------ search
\* The range selectSearchResult puts on a span: its contents.  A range on a
\* span that is no longer in the document is not added to the selection.
SelectSpan(ns, id) ==
    IF SpanStart(ns, id) = -1 THEN NoSelection
    ELSE Selection(SpanStart(ns, id), SpanStart(ns, id) + Len(SpanText(ns, id)))

\* The references pushed to searchResults, in the order they were pushed
Spans(k) == [i \in 1..k |-> i]

\* clearSearch(): what it leaves
ClearSearchResult(ns) ==
    [editor |-> ClearSearchDom(ns), searchResults |-> <<>>, searchIndex |-> -1,
     currentSearchText |-> <<>>, ret |-> RetBool(HighlightCount(ns) > 0)]

\* searchAndHighlight(searchText): what it leaves and what it returns
SearchAndHighlightResult(ns, sel, searchText) ==
    LET c == ClearSearchResult(ns) IN
    IF searchText = <<>>
    THEN [editor |-> c.editor, selection |-> sel, searchResults |-> <<>>,
          searchIndex |-> -1, currentSearchText |-> <<>>, ret |-> RetNum(0),
          cleared |-> c.ret.bool]
    ELSE LET count == MatchCount(c.editor, searchText)
             h == HighlightNodes(c.editor, searchText, 0)
         IN IF h.threw
            THEN [editor |-> h.nodes, selection |-> sel, searchResults |-> Spans(h.k),
                  searchIndex |-> -1, currentSearchText |-> searchText, ret |-> RetThrow,
                  cleared |-> c.ret.bool]
            ELSE [editor |-> h.nodes,
                  selection |-> IF h.k > 0 THEN SelectSpan(h.nodes, 1) ELSE sel,
                  searchResults |-> Spans(h.k),
                  searchIndex |-> IF h.k > 0 THEN 0 ELSE -1,
                  currentSearchText |-> searchText, ret |-> RetNum(count),
                  cleared |-> c.ret.bool]

\* ------------------------------------------------------------------ actions
\* The user types a character: the edit, then the input event with its two
\* listeners (history entry; contentChanged to the host).
UserInput(c) ==
    /\ Len(TextContent(editor)) < MaxText
    /\ isPerformingUndoRedo \/ LenAfterEntry <= MaxHist
    /\ LET dom == TypeAtEnd(editor, c)
           sel == Selection(Len(TextContent(dom)), Len(TextContent(dom)))
           h == InputListener(editorHistory, historyIndex, isPerformingUndoRedo,
                              InnerHTML(dom), sel)
       IN /\ editor' = dom
          /\ selection' = sel
          /\ editorHistory' = h.history
          /\ historyIndex' = h.index
          /\ call' = Call("input", <<c>>, RetNone, 1, h.recorded, h.trimmed, FALSE)
          /\ run' = RunNext(dom, h.history, h.index)
    /\ UNCHANGED <<isPerformingUndoRedo, searchResults, searchIndex, currentSearchText, timers>>

\* The entry read before the index is moved
ReplayEntryIndex_BeforeMove(index, step) == index

\* historyIndex--; (or ++;) let historyEntry = editorHistory[historyIndex]:
\* the index of the entry that is restored, from the index before the move
ReplayEntryIndex(index, step) == index + step

\* editor.innerHTML += historyEntry.content
RestoreContent_Appends(content) == editor \o SetInnerHTML(content)

\* editor.innerHTML = historyEntry.content
RestoreContent(content) == SetInnerHTML(content)

\* The replay, cutting the history after the entry it restores
Replay_DropsTail(op, step) ==
    /\ isPerformingUndoRedo' = TRUE
    /\ historyIndex' = historyIndex + step
    /\ IF HasEntry(editorHistory, ReplayEntryIndex(historyIndex, step))
       THEN LET historyEntry == EntryAt(editorHistory, ReplayEntryIndex(historyIndex, step)) IN
            /\ editor' = RestoreContent(historyEntry.content)
            /\ selection' = SelectionAfterReplace(selection)
            /\ timers' = timers
                 \o (IF historyEntry.selection.none THEN <<>>
                     ELSE <<Timer("restoreSelection", 0, historyEntry.selection, <<>>)>>)
                 \o <<Timer("resetFlag", ResetFlagDelay, NoSelection, <<>>)>>
            /\ call' = Call(op, <<>>, RetBool(TRUE), 1, 0, FALSE, FALSE)
       ELSE /\ timers' = Append(timers, Timer("resetFlag", ResetFlagDelay, NoSelection, <<>>))
            /\ call' = Call(op, <<>>, RetBool(FALSE), 0, 0, FALSE, FALSE)
            /\ UNCHANGED <<editor, selection>>
    /\ run' = LET depth == IF op = "customUndo" THEN run.depth + 1 ELSE run.depth - 1
              IN IF run.active /\ depth >= 0
                 THEN [run EXCEPT !.depth = depth,
                                  !.peak = IF depth > @ THEN depth ELSE @]
                 ELSE NoRun
    /\ Len(timers') <= MaxTimers
    /\ editorHistory' = SubSeq(editorHistory, 1, historyIndex + step + 1)
    /\ UNCHANGED <<searchResults, searchIndex, currentSearchText>>

\* The body shared by customUndo and customRedo after their guards: move the
\* index by step, restore that entry's content, defer the selection restore
\* and the reset of the flag.  Reading an entry that does not exist raises a
\* TypeError, which the catch block turns into a false result.
Replay(op, step) ==
    /\ isPerformingUndoRedo' = TRUE
    /\ historyIndex' = historyIndex + step
    /\ IF HasEntry(editorHistory, ReplayEntryIndex(historyIndex, step))
       THEN LET historyEntry == EntryAt(editorHistory, ReplayEntryIndex(historyIndex, step)) IN
            /\ editor' = RestoreContent(historyEntry.content)
            /\ selection' = SelectionAfterReplace(selection)
            /\ timers' = timers
                 \o (IF historyEntry.selection.none THEN <<>>
                     ELSE <<Timer("restoreSelection", 0, historyEntry.selection, <<>>)>>)
                 \o <<Timer("resetFlag", ResetFlagDelay, NoSelection, <<>>)>>
            /\ call' = Call(op, <<>>, RetBool(TRUE), 1, 0, FALSE, FALSE)
       ELSE /\ timers' = Append(timers, Timer("resetFlag", ResetFlagDelay, NoSelection, <<>>))
            /\ call' = Call(op, <<>>, RetBool(FALSE), 0, 0, FALSE, FALSE)
            /\ UNCHANGED <<editor, selection>>
    /\ run' = LET depth == IF op = "customUndo" THEN run.depth + 1 ELSE run.depth - 1
              IN IF run.active /\ depth >= 0
                 THEN [run EXCEPT !.depth = depth,
                                  !.peak = IF depth > @ THEN depth ELSE @]
                 ELSE NoRun
    /\ Len(timers') <= MaxTimers
    /\ UNCHANGED <<editorHistory, searchResults, searchIndex, currentSearchText>>

\* A call that returns at its guard
Refuse(op, arg, ret) ==
    /\ call' = Call(op, arg, ret, 0, 0, FALSE, FALSE)
    /\ UNCHANGED <<editor, selection, editorHistory, historyIndex, isPerformingUndoRedo,
                   searchResults, searchIndex, currentSearchText, timers, run>>

CustomUndo ==
    IF NothingToUndo(editorHistory, historyIndex)
    THEN Refuse("customUndo", <<>>, RetBool(FALSE))
    ELSE Replay("customUndo", -1)

CustomRedo ==
    IF NothingToRedo(editorHistory, historyIndex)
    THEN Refuse("customRedo", <<>>, RetBool(FALSE))
    ELSE Replay("customRedo", 1)

\* A search: what the host's find bar, or the deferred search of
\* replaceSelection, runs
Search(op, searchText) ==
    LET s == SearchAndHighlightResult(editor, selection, searchText) IN
    /\ editor' = s.editor
    /\ selection' = s.selection
    /\ searchResults' = s.searchResults
    /\ searchIndex' = s.searchIndex
    /\ currentSearchText' = s.currentSearchText
    /\ call' = Call(op, searchText, s.ret, 0, 0, FALSE, s.cleared)
    /\ run' = RunNext(s.editor, editorHistory, historyIndex)
    /\ UNCHANGED <<editorHistory, historyIndex, isPerformingUndoRedo>>

SearchAndHighlight(searchText) ==
    /\ Search("searchAndHighlight", searchText)
    /\ UNCHANGED timers

ClearSearch ==
    LET c == ClearSearchResult(editor) IN
    /\ editor' = c.editor
    /\ searchResults' = c.searchResults
    /\ searchIndex' = c.searchIndex
    /\ currentSearchText' = c.currentSearchText
    /\ call' = Call("clearSearch", <<>>, c.ret, 0, 0, FALSE, c.ret.bool)
    /\ run' = RunNext(c.editor, editorHistory, historyIndex)
    /\ UNCHANGED <<selection, editorHistory, historyIndex, isPerformingUndoRedo, timers>>

\* selectSearchResult(index): the index it settles on and the selection it
\* leaves; the caller has checked that searchResults is not empty
SelectSearchResult(index) ==
    LET i == IF index > Len(searchResults) - 1 THEN Len(searchResults) - 1 ELSE index
        clamped == IF i < 0 THEN 0 ELSE i
    IN [searchIndex |-> clamped,
        selection |-> SelectSpan(editor, searchResults[clamped + 1]),
        ret |-> RetBool(TRUE)]

\* The tail shared by findNext and findPrevious: selectSearchResult(searchIndex)
Find(op, index) ==
    LET r == SelectSearchResult(index) IN
    /\ searchIndex' = r.searchIndex
    /\ selection' = r.selection
    /\ call' = Call(op, <<>>, r.ret, 0, 0, FALSE, FALSE)
    /\ UNCHANGED <<editor, editorHistory, historyIndex, isPerformingUndoRedo,
                   searchResults, currentSearchText, timers, run>>

FindNext ==
    IF Len(searchResults) = 0
    THEN Refuse("findNext", <<>>, RetBool(FALSE))
    ELSE Find("findNext",
              IF searchIndex + 1 >= Len(searchResults) THEN 0 ELSE searchIndex + 1)

FindPrevious ==
    IF Len(searchResults) = 0
    THEN Refuse("findPrevious", <<>>, RetBool(FALSE))
    ELSE Find("findPrevious",
              IF searchIndex - 1 < 0 THEN Len(searchResults) - 1 ELSE searchIndex - 1)

ReplaceSelection(replaceText) ==
    IF Len(searchResults) = 0 \/ searchIndex < 0
    THEN Refuse("replaceSelection", replaceText, RetBool(FALSE))
    ELSE
    /\ Len(timers) + 2 <= MaxTimers
    /\ isPerformingUndoRedo \/ LenAfterEntry + 1 <= MaxHist
    /\ LET before == CreateHistoryEntry(editorHistory, historyIndex, isPerformingUndoRedo,
                                        InnerHTML(editor), selection)
           span == searchResults[searchIndex + 1]
           attached == SpanStart(editor, span) # -1
           \* insertText replaces the selected contents of the span, and fires
           \* an input event; with no range selected it does nothing
           dom == IF attached THEN InsertTextInSpan(editor, span, replaceText) ELSE editor
           caret == SpanStart(editor, span) + Len(replaceText)
           sel == IF attached THEN Selection(caret, caret) ELSE NoSelection
           input == IF attached
                    THEN InputListener(before.history, before.index, isPerformingUndoRedo,
                                       InnerHTML(dom), sel)
                    ELSE [history |-> before.history, index |-> before.index,
                          recorded |-> 0, trimmed |-> FALSE]
       IN /\ editor' = dom
          /\ selection' = sel
          /\ editorHistory' = input.history
          /\ historyIndex' = input.index
          /\ timers' = timers \o <<Timer("historyEntry", 0, NoSelection, <<>>),
                                   Timer("search", ResearchDelay, NoSelection, currentSearchText)>>
          /\ call' = Call("replaceSelection", replaceText, RetBool(TRUE),
                          (IF attached THEN 1 ELSE 0) + 1,
                          before.recorded + input.recorded, before.trimmed, FALSE)
          /\ run' = RunNext(dom, input.history, input.index)
    /\ UNCHANGED <<isPerformingUndoRedo, searchResults, searchIndex, currentSearchText>>

ReplaceAll(searchText, replaceText) ==
    IF searchText = <<>>
    THEN Refuse("replaceAll", searchText, RetNum(0))
    ELSE
    /\ Len(timers) + 1 <= MaxTimers
    /\ isPerformingUndoRedo \/ LenAfterEntry <= MaxHist
    /\ LET before == CreateHistoryEntry(editorHistory, historyIndex, isPerformingUndoRedo,
                                        InnerHTML(editor), selection)
           c == ClearSearchResult(editor)
           content == InnerHTML(c.editor)
           newContent == ReplaceLiteral(content, searchText, replaceText)
           count == LiteralCount(content, searchText)
           dom == SetInnerHTML(newContent)
       IN /\ editor' = dom
          /\ selection' = SelectionAfterReplace(selection)
          /\ editorHistory' = before.history
          /\ historyIndex' = before.index
          /\ searchResults' = c.searchResults
          /\ searchIndex' = c.searchIndex
          /\ currentSearchText' = c.currentSearchText
          /\ timers' = Append(timers, Timer("historyEntry", 0, NoSelection, <<>>))
          /\ call' = Call("replaceAll", searchText, RetNum(count), 1,
                          before.recorded, before.trimmed, c.ret.bool)
          /\ run' = RunNext(dom, before.history, before.index)
    /\ UNCHANGED isPerformingUndoRedo

\* --- the deferred continuations
\* setTimeout(() => { createHistoryEntry(); }, ...): the callback of kind
\* "initialEntry" (set at load) or "historyEntry" (set by a replace)
HistoryEntryTimer(kind) ==
    \E i \in 1..Len(timers) :
        /\ CanFire(i)
        /\ timers[i].kind = kind
        /\ isPerformingUndoRedo \/ LenAfterEntry <= MaxHist
        /\ LET h == CreateHistoryEntry(editorHistory, historyIndex, isPerformingUndoRedo,
                                       InnerHTML(editor), selection)
           IN /\ editorHistory' = h.history
              /\ historyIndex' = h.index
              /\ call' = Call(kind, <<>>, RetNone, 0, h.recorded, h.trimmed, FALSE)
              /\ run' = RunNext(editor, h.history, h.index)
        /\ timers' = RemoveAt(timers, i)
        /\ UNCHANGED <<editor, selection, isPerformingUndoRedo, searchResults, searchIndex,
                       currentSearchText>>

InitialEntry == HistoryEntryTimer("initialEntry")

DeferredEntry == HistoryEntryTimer("historyEntry")

\* setTimeout(() => { restoreSelection(historyEntry.selection); }, 0)
DeferredRestoreSelection ==
    \E i \in 1..Len(timers) :
        /\ CanFire(i)
        /\ timers[i].kind = "restoreSelection"
        /\ selection' = RestoreSelection(selection, timers[i].sel, editor)
        /\ timers' = RemoveAt(timers, i)
        /\ call' = Call("restoreSelection", <<>>, RetNone, 0, 0, FALSE, FALSE)
        /\ UNCHANGED <<editor, editorHistory, historyIndex, isPerformingUndoRedo,
                       searchResults, searchIndex, currentSearchText, run>>

\* A reset that leaves the flag set while a later reset is still pending
ResetFlag_UnlessPending ==
    \E i \in 1..Len(timers) :
        /\ CanFire(i)
        /\ timers[i].kind = "resetFlag"
        /\ isPerformingUndoRedo' =
             IF \E j \in 1..Len(timers) : j # i /\ timers[j].kind = "resetFlag"
             THEN isPerformingUndoRedo ELSE FALSE
        /\ timers' = RemoveAt(timers, i)
        /\ call' = Call("resetFlag", <<>>, RetNone, 0, 0, FALSE, FALSE)
        /\ UNCHANGED <<editor, selection, editorHistory, historyIndex,
                       searchResults, searchIndex, currentSearchText, run>>

\* setTimeout(() => { isPerformingUndoRedo = false; }, 10)
ResetFlag ==
    \E i \in 1..Len(timers) :
        /\ CanFire(i)
        /\ timers[i].kind = "resetFlag"
        /\ isPerformingUndoRedo' = FALSE
        /\ timers' = RemoveAt(timers, i)
        /\ call' = Call("resetFlag", <<>>, RetNone, 0, 0, FALSE, FALSE)
        /\ UNCHANGED <<editor, selection, editorHistory, historyIndex,
                       searchResults, searchIndex, currentSearchText, run>>

\* setTimeout(() => { searchAndHighlight(searchText); }, 10)
DeferredSearch ==
    \E i \in 1..Len(timers) :
        /\ CanFire(i)
        /\ timers[i].kind = "search"
        /\ Search("search", timers[i].term)
        /\ timers' = RemoveAt(timers, i)

\* restoreSelection(selectionInfo) called on its own
RestoreSelectionCall(info) ==
    LET r == RestoreSelectionResult(selection, info, editor) IN
    /\ selection' = r.selection
    /\ call' = Call("restoreSelection",
                    IF info.none THEN <<>> ELSE <<info.start, info.end>>,
                    RetBool(r.ret), 0, 0, FALSE, FALSE)
    /\ UNCHANGED <<editor, editorHistory, historyIndex, isPerformingUndoRedo,
                   searchResults, searchIndex, currentSearchText, timers, run>>

\* --- setContent
\* The characters of a token of markup
TokenChars(t) ==
    CASE t = DivOpen -> <<"<", "d", "i", "v", ">">>
      [] t = DivClose -> <<"<", "/", "d", "i", "v", ">">>
      [] t = PreOpen -> <<"<", "p", "r", "e", ">">>
      [] t = PreClose -> <<"<", "/", "p", "r", "e", ">">>
      [] t = BrTag -> <<"<", "b", "r", ">">>
      [] OTHER -> <<t>>

RECURSIVE MarkupChars(_)
\* The string a sequence of tokens stands for, character by character
MarkupChars(toks) ==
    IF toks = <<>> THEN <<>> ELSE TokenChars(Head(toks)) \o MarkupChars(Tail(toks))

\* The white space of the markup and text modelled: space and line feed
Whitespace == {" ", "\n"}

RECURSIVE TrimStart(_)
TrimStart(s) == IF s # <<>> /\ Head(s) \in Whitespace THEN TrimStart(Tail(s)) ELSE s

\* String.prototype.trim()
Trim(s) == Reverse(TrimStart(Reverse(TrimStart(s))))

\* String.prototype.startsWith(prefix)
StartsWith(s, prefix) == Len(s) >= Len(prefix) /\ SubSeq(s, 1, Len(prefix)) = prefix

\* The prefixes setContent tests the trimmed markup for
BlockPrefixes ==
    {<<"<", "d", "i", "v">>, <<"<", "p">>, <<"<", "h">>, <<"<", "u", "l">>,
     <<"<", "o", "l">>, <<"<", "t", "a", "b", "l", "e">>}

\* The markup setContent assigns to innerHTML
SetContentMarkup(html) ==
    IF \A p \in BlockPrefixes : ~StartsWith(Trim(MarkupChars(html)), p)
    THEN <<DivOpen>> \o html \o <<DivClose>>
    ELSE html

RECURSIVE WrapUnwrappedText(_)
\* wrapUnwrappedText(editor): every child text node that is not whitespace
\* only is put into a new <div> of its own
WrapUnwrappedText(ns) ==
    IF ns = <<>> THEN <<>>
    ELSE LET n == Head(ns) IN
         <<IF n.kind = "text" /\ Trim(n.text) # <<>> THEN DivNode(<<n>>) ELSE n>>
            \o WrapUnwrappedText(Tail(ns))

WrapDelay == 0

\* setContent, recording a history entry for the document it has set
SetContent_Records(html) ==
    /\ IF html = <<>> \/ Trim(MarkupChars(html)) = <<>>
       THEN /\ editor' = SetInnerHTML(<<DivOpen, BrTag, DivClose>>)
            /\ timers' = timers
       ELSE /\ Len(timers) + 1 <= MaxTimers
            /\ editor' = SetInnerHTML(SetContentMarkup(html))
            /\ timers' = Append(timers, Timer("wrapUnwrappedText", WrapDelay, NoSelection, <<>>))
    /\ selection' = SelectionAfterReplace(selection)
    /\ LET h == CreateHistoryEntry(editorHistory, historyIndex, isPerformingUndoRedo,
                                   InnerHTML(editor'), selection')
       IN /\ editorHistory' = h.history
          /\ historyIndex' = h.index
          /\ call' = Call("setContent", html, RetNone, 0, h.recorded, h.trimmed, FALSE)
    /\ run' = RunAfter(editor', editorHistory, historyIndex)
    /\ Len(editorHistory') <= MaxHist
    /\ UNCHANGED <<isPerformingUndoRedo, searchResults, searchIndex, currentSearchText>>

SetContent(html) ==
    /\ IF html = <<>> \/ Trim(MarkupChars(html)) = <<>>
       THEN /\ editor' = SetInnerHTML(<<DivOpen, BrTag, DivClose>>)
            /\ timers' = timers
       ELSE /\ Len(timers) + 1 <= MaxTimers
            /\ editor' = SetInnerHTML(SetContentMarkup(html))
            /\ timers' = Append(timers, Timer("wrapUnwrappedText", WrapDelay, NoSelection, <<>>))
    /\ selection' = SelectionAfterReplace(selection)
    /\ call' = Call("setContent", html, RetNone, 0, 0, FALSE, FALSE)
    /\ run' = RunAfter(editor', editorHistory, historyIndex)
    /\ UNCHANGED <<editorHistory, historyIndex, isPerformingUndoRedo,
                   searchResults, searchIndex, currentSearchText>>

\* setTimeout(() => { wrapUnwrappedText(editor); setupTableEventHandlers(); }, 0)
DeferredWrap ==
    \E i \in 1..Len(timers) :
        /\ CanFire(i)
        /\ timers[i].kind = "wrapUnwrappedText"
        /\ editor' = WrapUnwrappedText(editor)
        /\ timers' = RemoveAt(timers, i)
        /\ handlers' = Min(handlers + 1, MaxHandlers)
        /\ call' = Call("wrapUnwrappedText", <<>>, RetNone, 0, 0, FALSE, FALSE)
        /\ run' = RunNext(editor', editorHistory, historyIndex)
        /\ UNCHANGED <<selection, editorHistory, historyIndex, isPerformingUndoRedo,
                       searchResults, searchIndex, currentSearchText>>

\* --- getWordCount
\* A required line break of the rendered text: the start and end of a block
LineBreak == "<line break>"

RECURSIVE RenderedItems(_)
\* The items innerText collects: the characters of the text nodes, a line feed
\* for <br>, and a required line break before and after every block
RenderedItems(ns) ==
    IF ns = <<>> THEN <<>>
    ELSE LET n == Head(ns) IN
         (CASE n.kind \in {"text", "hl"} -> n.text
            [] n.kind = "br" -> <<"\n">>
            [] OTHER -> <<LineBreak>> \o RenderedItems(n.kids) \o <<LineBreak>>)
            \o RenderedItems(Tail(ns))

RECURSIVE CollapseSpaces(_, _)
\* white-space: normal.  A space is dropped at the start of a line, after
\* another space, and at the end of a line; skip tells that the line has
\* nothing yet, or that a space was just kept.
CollapseSpaces(items, skip) ==
    IF items = <<>> THEN <<>>
    ELSE LET c == Head(items)
             rest == SelectSeq(Tail(items), LAMBDA x : x # " ")
         IN IF c = " "
            THEN IF skip \/ rest = <<>> \/ Head(rest) \in {LineBreak, "\n"}
                 THEN CollapseSpaces(Tail(items), skip)
                 ELSE <<c>> \o CollapseSpaces(Tail(items), TRUE)
            ELSE <<c>> \o CollapseSpaces(Tail(items), c \in {LineBreak, "\n"})

RECURSIVE SkipLineBreaks(_)
SkipLineBreaks(items) ==
    IF items # <<>> /\ Head(items) = LineBreak THEN SkipLineBreaks(Tail(items)) ELSE items

RECURSIVE JoinLines(_, _)
\* Runs of required line breaks become one line feed; those at the start and
\* at the end of the text are removed
JoinLines(items, started) ==
    IF items = <<>> THEN <<>>
    ELSE IF Head(items) = LineBreak
         THEN LET after == SkipLineBreaks(items)
              IN IF after = <<>> THEN <<>>
                 ELSE (IF started THEN <<"\n">> ELSE <<>>) \o JoinLines(after, TRUE)
         ELSE <<Head(items)>> \o JoinLines(Tail(items), TRUE)

\* editor.innerText
InnerText(ns) == JoinLines(CollapseSpaces(RenderedItems(ns), TRUE), FALSE)

RECURSIVE SplitWhitespace(_, _)
\* text.split(/\s+/): the pieces between the runs of white space, cur being
\* the piece read so far
SplitWhitespace(s, cur) ==
    IF s = <<>> THEN <<cur>>
    ELSE IF Head(s) \in Whitespace
         THEN <<cur>> \o SplitWhitespace(TrimStart(s), <<>>)
         ELSE SplitWhitespace(Tail(s), cur \o <<Head(s)>>)

\* array.filter(Boolean): the empty strings are dropped
FilterBoolean(pieces) == SelectSeq(pieces, LAMBDA p : p # <<>>)

\* The counts of getWordCount taken of the untrimmed text, every piece counted
WordCount_SplitsUntrimmed(text) ==
    [words |-> Len(SplitWhitespace(text, <<>>)), chars |-> Len(text)]

\* The counts getWordCount returns for the text
WordCount(text) ==
    [words |-> IF Trim(text) # <<>>
               THEN Len(FilterBoolean(SplitWhitespace(Trim(text), <<>>)))
               ELSE 0,
     chars |-> Len(text)]

RetWordCount(c) == [kind |-> "wordCount", bool |-> FALSE, num |-> c.words, chars |-> c.chars]

\* getWordCount()
GetWordCount ==
    /\ call' = Call("getWordCount", <<>>, RetWordCount(WordCount(InnerText(editor))),
                    0, 0, FALSE, FALSE)
    /\ UNCHANGED <<editor, selection, editorHistory, historyIndex, isPerformingUndoRedo,
                   searchResults, searchIndex, currentSearchText, timers, run>>

\* --- tables
\* A table element; sr > 0 tells the table elements of a page apart.  Its
\* children are its rows (table.rows), followed by the handles that
\* activateTable appended.
TableNode(id, k) == [kind |-> "table", text |-> <<>>, kids |-> k, sr |-> id]
RowNode(cells) == [kind |-> "tr", text |-> <<>>, kids |-> cells, sr |-> 0]
\* <td> </td>, and what cell.innerHTML = ' ' leaves
CellNode == [kind |-> "td", text |-> <<>>, kids |-> <<TextNode(<<" ">>)>>, sr |-> 0]
EmptyRow == RowNode(<<>>)
\* <p></p>
PNode == [kind |-> "p", text |-> <<>>, kids |-> <<>>, sr |-> 0]
\* <div class="table-handle">, <div class="table-drag-handle">
ResizeHandle == [kind |-> "table-handle", text |-> <<>>, kids |-> <<>>, sr |-> 0]
DragHandle == [kind |-> "table-drag-handle", text |-> <<>>, kids |-> <<>>, sr |-> 0]

IsRow(n) == n.kind = "tr"
IsTable(n) == n.kind = "table"
IsHandle(n) == n.kind \in {"table-handle", "table-drag-handle"}

\* The markup insertTable builds, parsed: rows rows of cols cells
NewTable(rows, cols, id) ==
    TableNode(id, [i \in 1..rows |-> RowNode([j \in 1..cols |-> CellNode])])

\* table.rows
Rows(t) == SelectSeq(t.kids, IsRow)
HandlesOf(t) == SelectSeq(t.kids, IsHandle)
WithRows(t, rows) == [t EXCEPT !.kids = rows \o HandlesOf(t)]

RECURSIVE Tables(_)
\* document.querySelectorAll('table'), in document order: the tables that are
\* children of the editor and those inside its <div> blocks
Tables(doc) ==
    IF doc = <<>> THEN <<>>
    ELSE LET n == Head(doc) IN
         (IF IsTable(n) THEN <<n>> ELSE IF n.kind = "div" THEN Tables(n.kids) ELSE <<>>)
            \o Tables(Tail(doc))
TableIds(doc) == {Tables(doc)[i].sr : i \in 1..Len(Tables(doc))}
TableOf(doc, id) == Tables(doc)[CHOOSE i \in 1..Len(Tables(doc)) : Tables(doc)[i].sr = id]
\* Whether table id is a child of the editor itself
IsChild(doc, id) == \E i \in 1..Len(doc) : IsTable(doc[i]) /\ doc[i].sr = id
IndexOfTable(doc, id) == CHOOSE i \in 1..Len(doc) : IsTable(doc[i]) /\ doc[i].sr = id

RECURSIVE WithoutTable(_, _)
\* parentNode.removeChild(table): the document without table id
WithoutTable(doc, id) ==
    IF doc = <<>> THEN <<>>
    ELSE LET n == Head(doc) IN
         (IF IsTable(n) /\ n.sr = id THEN <<>>
          ELSE IF n.kind = "div" THEN <<[n EXCEPT !.kids = WithoutTable(@, id)]>>
          ELSE <<n>>)
            \o WithoutTable(Tail(doc), id)

\* An id no table of the page has
NewTableId(doc, active) ==
    CHOOSE id \in 1..(Len(doc) + 2) : id \notin TableIds(doc) /\ id # active

RECURSIVE WithTable(_, _, _)
\* The document with table id replaced by t
WithTable(doc, id, t) ==
    [i \in 1..Len(doc) |->
        IF IsTable(doc[i]) /\ doc[i].sr = id THEN t
        ELSE IF doc[i].kind = "div" THEN [doc[i] EXCEPT !.kids = WithTable(@, id, t)]
        ELSE doc[i]]

HasKind(t, kind) == \E i \in 1..Len(t.kids) : t.kids[i].kind = kind

\* activateTable(tableElement) appending the handles the table does not have
AddHandles(t) ==
    [t EXCEPT !.kids = @ \o (IF HasKind(t, "table-handle") THEN <<>> ELSE <<ResizeHandle>>)
                         \o (IF HasKind(t, "table-drag-handle") THEN <<>> ELSE <<DragHandle>>)]

RECURSIVE RemoveHandles(_)
\* The loop of deactivateAllTables
RemoveHandles(doc) ==
    [i \in 1..Len(doc) |->
        IF IsTable(doc[i]) THEN [doc[i] EXCEPT !.kids = Rows(doc[i])]
        ELSE IF doc[i].kind = "div" THEN [doc[i] EXCEPT !.kids = RemoveHandles(@)]
        ELSE doc[i]]

\* activateTable(tableElement): the handles the table lacks are appended
ActivateTableDom(doc, id) == WithTable(doc, id, AddHandles(TableOf(doc, id)))

InsertAt(s, pos, items) == SubSeq(s, 1, pos) \o items \o SubSeq(s, pos + 1, Len(s))

ActivateDelay == 10

\* What a table operation leaves alone
\* The class attribute is a sequence of class names, style.width a string
\* ("" when not set, "px" for a length in pixels)
Style(className, width) == [className |-> className, width |-> width]

\* const alignmentClasses = ['left-align', 'right-align', 'center-align', 'no-wrap']
AlignmentClasses == <<"left-align", "right-align", "center-align", "no-wrap">>
IsAlignmentClass(cls) == \E i \in 1..Len(AlignmentClasses) : AlignmentClasses[i] = cls

\* currentClasses.includes(cls): cls occurs in the class attribute.  No class
\* name of the model is part of another one.
Includes(className, cls) == \E i \in 1..Len(className) : className[i] = cls

\* The forEach over alignmentClasses: the last one found wins, 'no-wrap' is
\* the start value
CurrentAlignment(className) ==
    LET found == {i \in 1..Len(AlignmentClasses) : Includes(className, AlignmentClasses[i])}
    IN IF found = {} THEN "no-wrap"
       ELSE AlignmentClasses[CHOOSE i \in found : \A j \in found : j <= i]

\* activateTable without the classList.remove of the four classes
ActivatedStyle_KeepsClasses(style) ==
    Style(Append(style.className, CurrentAlignment(style.className)), style.width)

\* The class list after activateTable: classList.remove of all four, then
\* classList.add(currentAlignment)
ActivatedStyle(style) ==
    Style(Append(SelectSeq(style.className, LAMBDA cls : ~IsAlignmentClass(cls)),
                 CurrentAlignment(style.className)),
          style.width)

\* class="no-wrap" style="border-collapse: collapse;" of insertTable's markup
InsertedStyle == Style(<<"no-wrap">>, "")

LoadedStyles(doc) == [id \in TableIds(doc) |-> InsertedStyle]

\* The styles after a table operation: activated is the table it called
\* activateTable for, 0 for none
StyleAfter(activated) ==
    [id \in TableIds(editor') |->
        LET style == IF id \in DOMAIN tableStyle THEN tableStyle[id] ELSE InsertedStyle
        IN IF id = activated THEN ActivatedStyle(style) ELSE style]

\* The table toolbar of the host after a step.  It is shown by
\* on_insert_table_dialog_response and by on_table_clicked (message
\* tableClicked), hidden by on_close_table_toolbar_clicked (which calls
\* deactivateAllTables), on_delete_table_clicked, on_tables_deactivated
\* (message tablesDeactivated) and on_table_deleted (message tableDeleted);
\* the messages of a step are taken as delivered with it.
ToolbarAfter ==
    CASE call'.op = "insertTable" -> TRUE
      [] call'.op = "activateTable" -> IF call'.posted > 0 THEN TRUE ELSE tableToolbarVisible
      [] call'.op = "click" -> IF call'.posted > 0 THEN activeTable' # 0 ELSE tableToolbarVisible
      [] call'.op \in {"deleteTable", "deactivateAllTables"} -> FALSE
      [] OTHER -> tableToolbarVisible

\* What no table operation changes
TableRest ==
    /\ steps' = steps + 1
    /\ tableToolbarVisible' = ToolbarAfter
    /\ UNCHANGED handlers
    /\ UNCHANGED <<selection, editorHistory, historyIndex, isPerformingUndoRedo,
                   searchResults, searchIndex, currentSearchText, run, batch>>

TableFrameFor(activated) ==
    /\ tableStyle' = StyleAfter(activated)
    /\ TableRest

TableFrame == TableFrameFor(0)

\* A table operation that returns at once
TableNoOp(op, arg, posted) ==
    /\ call' = Call(op, arg, RetNone, posted, 0, FALSE, FALSE)
    /\ UNCHANGED <<editor, timers, activeTable, isDragging, isResizing, dragStartY>>
    /\ TableFrame

\* insertTable(rows, cols) with the caret between the blocks pos and pos + 1
\* of the document: insertHTML puts the table and an empty paragraph there.
\* The timer remembers which table it was set for (the callback does not).
InsertTable(rows, cols, pos) ==
    LET id == NewTableId(editor, activeTable) IN
    /\ Len(Tables(editor)) < MaxTables
    /\ Len(timers) + 1 <= MaxTimers
    /\ editor' = InsertAt(editor, pos, <<NewTable(rows, cols, id), PNode>>)
    /\ timers' = Append(timers, Timer("activateTable", ActivateDelay, NoSelection, <<id>>))
    /\ call' = Call("insertTable", <<rows, cols, id>>, RetNone, 0, 0, FALSE, FALSE)
    /\ UNCHANGED <<activeTable, isDragging, isResizing, dragStartY>>
    /\ TableFrame

\* The callback of insertTable: the last table of the document is activated
DeferredActivateTable ==
    \E i \in 1..Len(timers) :
        /\ CanFire(i)
        /\ timers[i].kind = "activateTable"
        /\ timers' = RemoveAt(timers, i)
        /\ LET tables == Tables(editor) IN
           IF Len(tables) = 0
           THEN /\ call' = Call("activateTable", timers[i].term, RetNone, 0, 0, FALSE, FALSE)
                /\ UNCHANGED <<editor, activeTable>>
           ELSE LET newTable == tables[Len(tables)].sr IN
                /\ editor' = ActivateTableDom(editor, newTable)
                /\ activeTable' = newTable
                /\ call' = Call("activateTable", timers[i].term, RetNone, 1, 0, FALSE, FALSE)
        /\ UNCHANGED <<isDragging, isResizing, dragStartY>>
        /\ TableFrameFor(IF Len(Tables(editor)) = 0 THEN 0 ELSE activeTable')

\* deactivateAllTables()
DeactivateAllTables ==
    /\ editor' = RemoveHandles(editor)
    /\ activeTable' = 0
    /\ call' = Call("deactivateAllTables", <<>>, RetNone,
                    IF activeTable # 0 THEN 1 ELSE 0, 0, FALSE, FALSE)
    /\ UNCHANGED <<timers, isDragging, isResizing, dragStartY>>
    /\ TableFrame

\* The click listener of the editor, for a click in table id, or outside of
\* every table (id = 0)
Click(id) ==
    IF id = 0 /\ activeTable # 0
    THEN /\ editor' = RemoveHandles(editor)
         /\ activeTable' = 0
         /\ call' = Call("click", <<id>>, RetNone, 1, 0, FALSE, FALSE)
         /\ UNCHANGED <<timers, isDragging, isResizing, dragStartY>>
         /\ TableFrame
    ELSE IF id # 0 /\ id # activeTable
    THEN /\ editor' = ActivateTableDom(RemoveHandles(editor), id)
         /\ activeTable' = id
         /\ call' = Call("click", <<id>>, RetNone,
                         IF activeTable # 0 THEN 2 ELSE 1, 0, FALSE, FALSE)
         /\ UNCHANGED <<timers, isDragging, isResizing, dragStartY>>
         /\ TableFrameFor(id)
    ELSE TableNoOp("click", <<id>>, 0)

\* The host's "delete table": the active table is removed from its parent.
\* A table that the replacement of the content has detached has no parent:
\* activeTable.parentNode.removeChild raises a TypeError and nothing is done.
DeleteTable ==
    IF activeTable = 0
    THEN TableNoOp("deleteTable", <<>>, 0)
    ELSE IF activeTable \notin TableIds(editor)
    THEN /\ call' = Call("deleteTable", <<activeTable>>, RetThrow, 0, 0, FALSE, FALSE)
         /\ UNCHANGED <<editor, timers, activeTable, isDragging, isResizing, dragStartY>>
         /\ TableFrame
    ELSE /\ editor' = WithoutTable(editor, activeTable)
         /\ activeTable' = 0
         /\ call' = Call("deleteTable", <<activeTable>>, RetNone, 2, 0, FALSE, FALSE)
         /\ UNCHANGED <<timers, isDragging, isResizing, dragStartY>>
         /\ TableFrame

\* position and index arguments that were not given
Undefined == -1

\* A table operation on the active table that changes its rows
OnActiveTable(op, arg, rows) ==
    /\ editor' = WithTable(editor, activeTable, WithRows(TableOf(editor, activeTable), rows))
    /\ call' = Call(op, <<activeTable, arg>>, RetNone, 1, 0, FALSE, FALSE)
    /\ UNCHANGED <<timers, activeTable, isDragging, isResizing, dragStartY>>
    /\ TableFrame

\* addTableRow(activeTable, position).  rows is a live collection: the cell
\* count is read from rows[0] after the new row was inserted.
AddTableRow(position) ==
    IF activeTable = 0
    THEN TableNoOp("addTableRow", <<0, position>>, 0)
    ELSE LET rows == Rows(TableOf(editor, activeTable)) IN
         IF Len(rows) = 0
         THEN TableNoOp("addTableRow", <<activeTable, position>>, 1)
         ELSE LET rowIndex == IF position # Undefined THEN position ELSE Len(rows)
                  inserted == InsertAt(rows, rowIndex, <<EmptyRow>>)
                  cells == Len(inserted[1].kids)
                  newRow == RowNode([j \in 1..cells |-> CellNode])
              IN /\ rowIndex <= Len(rows)
                 /\ Len(rows) < MaxRows
                 /\ OnActiveTable("addTableRow", position, InsertAt(rows, rowIndex, <<newRow>>))

\* addTableColumn(activeTable, position)
AddTableColumn(position) ==
    IF activeTable = 0
    THEN TableNoOp("addTableColumn", <<0, position>>, 0)
    ELSE LET rows == Rows(TableOf(editor, activeTable)) IN
         /\ \A i \in 1..Len(rows) :
                /\ Len(rows[i].kids) < MaxCols
                /\ position # Undefined => position <= Len(rows[i].kids)
         /\ OnActiveTable("addTableColumn", position,
                [i \in 1..Len(rows) |->
                    LET cellIndex == IF position # Undefined THEN position
                                     ELSE Len(rows[i].kids)
                    IN RowNode(InsertAt(rows[i].kids, cellIndex, <<CellNode>>))])

\* deleteTableRow(activeTable, rowIndex)
DeleteTableRow(rowIndex) ==
    IF activeTable = 0
    THEN TableNoOp("deleteTableRow", <<0, rowIndex>>, 0)
    ELSE LET rows == Rows(TableOf(editor, activeTable))
             indexToDelete == IF rowIndex # Undefined THEN rowIndex ELSE Len(rows) - 1
         IN IF Len(rows) > 1 /\ indexToDelete >= 0 /\ indexToDelete < Len(rows)
            THEN OnActiveTable("deleteTableRow", rowIndex, RemoveAt(rows, indexToDelete + 1))
            ELSE OnActiveTable("deleteTableRow", rowIndex, rows)

\* deleteTableColumn(activeTable, colIndex)
DeleteTableColumn(colIndex) ==
    IF activeTable = 0
    THEN TableNoOp("deleteTableColumn", <<0, colIndex>>, 0)
    ELSE LET rows == Rows(TableOf(editor, activeTable)) IN
         IF Len(rows) > 0 /\ Len(rows[1].kids) > 1
         THEN LET indexToDelete == IF colIndex # Undefined THEN colIndex
                                   ELSE Len(rows[1].kids) - 1
              IN OnActiveTable("deleteTableColumn", colIndex,
                    [i \in 1..Len(rows) |->
                        IF indexToDelete >= 0 /\ indexToDelete < Len(rows[i].kids)
                        THEN RowNode(RemoveAt(rows[i].kids, indexToDelete + 1))
                        ELSE rows[i]])
         ELSE OnActiveTable("deleteTableColumn", colIndex, rows)

\* mousedown on the drag handle of table id at height clientY
StartTableDrag(id, clientY) ==
    /\ id \in TableIds(editor)
    /\ HasKind(TableOf(editor, id), "table-drag-handle")
    /\ isDragging' = TRUE
    /\ activeTable' = id
    /\ dragStartY' = clientY
    /\ call' = Call("startTableDrag", <<id, clientY>>, RetNone, 0, 0, FALSE, FALSE)
    /\ UNCHANGED <<editor, timers, isResizing>>
    /\ TableFrame

\* mousedown on the resize handle of table id at height clientY
StartTableResize(id, clientY) ==
    /\ id \in TableIds(editor)
    /\ HasKind(TableOf(editor, id), "table-handle")
    /\ isResizing' = TRUE
    /\ activeTable' = id
    /\ dragStartY' = clientY
    /\ call' = Call("startTableResize", <<id, clientY>>, RetNone, 0, 0, FALSE, FALSE)
    /\ UNCHANGED <<editor, timers, isDragging>>
    /\ TableFrame

\* if (Math.abs(deltaY) > 30)
DragThreshold == 30

\* The element activeTable refers to after editor.innerHTML was assigned: the
\* table as it was, with the handles of an active table.  Where the content
\* is replaced during a drag every table has one row of one cell.
DetachedTable(id) == AddHandles(NewTable(1, 1, id))

\* The filter of moveTable: the children of the editor whose display is a
\* block, and the tables
IsBlockLevel(n) == n.kind \in {"div", "p", "pre", "table"}

\* blocks.indexOf(activeTable) for the child at index i of doc
BlockIndex(doc, i) == Cardinality({j \in 1..(i - 1) : IsBlockLevel(doc[j])})

\* moveTable(e) with e.clientY = clientY: what it leaves.  Beyond the
\* threshold the table is put before the block before it (deltaY < 0) or
\* after the block after it, and the anchor becomes the pointer position.
\* For a table inside a block, and for one that the replacement of the content
\* has detached, blocks.indexOf(activeTable) is -1, and the block "after it"
\* is the first block of the editor.
MoveTable(clientY) ==
    LET deltaY == clientY - dragStartY
        same == [editor |-> editor, dragStartY |-> dragStartY, posted |-> 0]
    IN IF ~isDragging \/ activeTable = 0
       THEN same
       ELSE LET child == IsChild(editor, activeTable)
                i == IF child THEN IndexOfTable(editor, activeTable) ELSE 0
                blocks == {j \in 1..Len(editor) : IsBlockLevel(editor[j])}
                tableIndex == IF child THEN BlockIndex(editor, i) ELSE -1
                table == IF activeTable \in TableIds(editor)
                         THEN TableOf(editor, activeTable)
                         ELSE DetachedTable(activeTable)
                without == WithoutTable(editor, activeTable)
            IN IF (IF deltaY < 0 THEN -deltaY ELSE deltaY) > DragThreshold
               THEN IF deltaY < 0 /\ tableIndex > 0
                    THEN LET target == CHOOSE j \in blocks :
                                          j < i /\ \A k \in blocks : k < i => k <= j
                         IN [editor |-> InsertAt(without, target - 1, <<table>>),
                             dragStartY |-> clientY, posted |-> 1]
                    ELSE IF deltaY > 0 /\ tableIndex < Cardinality(blocks) - 1
                    THEN LET target == CHOOSE j \in blocks :
                                          j > i /\ \A k \in blocks : k > i => k >= j
                         IN [editor |-> InsertAt(without, IF child THEN target - 1 ELSE target,
                                                 <<table>>),
                             dragStartY |-> clientY, posted |-> 1]
                    ELSE same
               ELSE same

\* The width resizeTable(e) sets: (tableStartX + deltaX) + 'px'
ResizeTable(style) == [style EXCEPT !.width = "px"]

\* The mousemove listener with the pointer at height clientY
MouseMove(clientY) ==
    LET moved == IF isDragging /\ activeTable # 0 THEN MoveTable(clientY)
                 ELSE [editor |-> editor, dragStartY |-> dragStartY, posted |-> 0]
    IN /\ editor' = moved.editor
       /\ dragStartY' = moved.dragStartY
       /\ tableStyle' = IF isResizing /\ activeTable \in DOMAIN tableStyle
                        THEN [tableStyle EXCEPT ![activeTable] = ResizeTable(@)]
                        ELSE tableStyle
       /\ call' = Call("mousemove", <<clientY>>, RetNone, moved.posted, 0, FALSE, FALSE)
       /\ UNCHANGED <<timers, activeTable, isDragging, isResizing>>
       /\ TableRest

\* The mouseup listener, notifying the host whether or not a drag or resize
\* was going on
MouseUp_AlwaysPosts ==
    /\ isDragging' = FALSE
    /\ isResizing' = FALSE
    /\ call' = Call("mouseup", <<>>, RetNone, IF activeTable # 0 THEN 1 ELSE 0,
                    0, FALSE, FALSE)
    /\ UNCHANGED <<editor, timers, activeTable, dragStartY>>
    /\ TableFrame

\* The mouseup listener
MouseUp ==
    /\ isDragging' = FALSE
    /\ isResizing' = FALSE
    /\ call' = Call("mouseup", <<>>, RetNone,
                    IF (isDragging \/ isResizing) /\ activeTable # 0 THEN 1 ELSE 0,
                    0, FALSE, FALSE)
    /\ UNCHANGED <<editor, timers, activeTable, dragStartY>>
    /\ TableFrame

\* --- the host's table alignment commands
\* activeTable.className = className; activeTable.style.width = width;
OnTableAlign(op, className, width) ==
    IF activeTable = 0 \/ activeTable \notin DOMAIN tableStyle
    THEN TableNoOp(op, <<activeTable>>, 0)
    ELSE /\ tableStyle' = [tableStyle EXCEPT ![activeTable] = Style(<<className>>, width)]
         /\ call' = Call(op, <<activeTable>>, RetNone, 1, 0, FALSE, FALSE)
         /\ UNCHANGED <<editor, timers, activeTable, isDragging, isResizing, dragStartY>>
         /\ TableRest

OnTableAlignLeft == OnTableAlign("tableAlignLeft", "left-align", "auto")
OnTableAlignCenter == OnTableAlign("tableAlignCenter", "center-align", "auto")
OnTableAlignRight == OnTableAlign("tableAlignRight", "right-align", "auto")
OnTableFullWidth == OnTableAlign("tableFullWidth", "no-wrap", "100%")

\* --- the host's insert row / insert column commands
\* Where the selection's start container is when the command runs: nowhere
\* (rangeCount is 0), outside of every table cell, or in cell col of row row
\* of table table (row and col are rowIndex and cellIndex)
NoRange == [kind |-> "none", table |-> 0, row |-> 0, col |-> 0]
OutsideCells == [kind |-> "outside", table |-> 0, row |-> 0, col |-> 0]
InCell(id, rowIndex, cellIndex) ==
    [kind |-> "cell", table |-> id, row |-> rowIndex, col |-> cellIndex]

CellPlaces(doc) ==
    {InCell(id, r, c) : id \in TableIds(doc), r \in 0..(MaxRows - 1), c \in 0..(MaxCols - 1)}

Places(doc) ==
    {NoRange, OutsideCells}
    \cup {p \in CellPlaces(doc) :
            /\ p.row < Len(Rows(TableOf(doc, p.table)))
            /\ p.col < Len(Rows(TableOf(doc, p.table))[p.row + 1].kids)}

\* What an insert command leaves: the rows of the active table, the result
\* (RetThrow for an IndexSizeError of insertRow or insertCell) and the
\* contentChanged message
HostTableEdit(op, place, rows, ret, posted) ==
    /\ editor' = WithTable(editor, activeTable, WithRows(TableOf(editor, activeTable), rows))
    /\ call' = Call(op, <<activeTable, place>>, ret, posted, 0, FALSE, FALSE)
    /\ UNCHANGED <<timers, activeTable, isDragging, isResizing, dragStartY>>
    /\ TableFrame

\* addTableRow(activeTable), addTableColumn(activeTable) called by a command
\* that found no cell
AppendRow(rows) ==
    IF Len(rows) = 0 THEN rows
    ELSE Append(rows, RowNode([j \in 1..Len(rows[1].kids) |-> CellNode]))

AppendColumn(rows) == [i \in 1..Len(rows) |-> RowNode(Append(rows[i].kids, CellNode))]

\* on_add_row_above_clicked (offset 0), on_add_row_below_clicked (offset 1)
OnAddRowClicked(op, offset, place) ==
    IF activeTable = 0 \/ place.kind = "none"
    THEN TableNoOp(op, <<activeTable, place>>, 0)
    ELSE LET rows == Rows(TableOf(editor, activeTable)) IN
         /\ Len(rows) < MaxRows
         /\ IF place.kind = "outside"
            THEN HostTableEdit(op, place, AppendRow(rows), RetNone, 1)
            ELSE LET row == Rows(TableOf(editor, place.table))[place.row + 1]
                     rowIndex == place.row + offset
                     newRow == RowNode([j \in 1..Len(row.kids) |-> CellNode])
                 IN IF rowIndex > Len(rows)
                    THEN HostTableEdit(op, place, rows, RetThrow, 0)
                    ELSE HostTableEdit(op, place, InsertAt(rows, rowIndex, <<newRow>>),
                                       RetNone, 1)

RECURSIVE InsertCells(_, _)
\* for (i...) rows[i].insertCell(cellIndex): the rows afterwards; the loop
\* ends at the first row that has fewer than cellIndex cells
InsertCells(rows, cellIndex) ==
    IF rows = <<>> THEN [rows |-> <<>>, threw |-> FALSE]
    ELSE IF cellIndex > Len(Head(rows).kids) THEN [rows |-> rows, threw |-> TRUE]
    ELSE LET rest == InsertCells(Tail(rows), cellIndex)
         IN [rows |-> <<RowNode(InsertAt(Head(rows).kids, cellIndex, <<CellNode>>))>>
                        \o rest.rows,
             threw |-> rest.threw]

\* on_add_column_before_clicked (offset 0), on_add_column_after_clicked
\* (offset 1)
OnAddColumnClicked(op, offset, place) ==
    IF activeTable = 0 \/ place.kind = "none"
    THEN TableNoOp(op, <<activeTable, place>>, 0)
    ELSE LET rows == Rows(TableOf(editor, activeTable)) IN
         /\ \A i \in 1..Len(rows) : Len(rows[i].kids) < MaxCols
         /\ IF place.kind = "outside"
            THEN HostTableEdit(op, place, AppendColumn(rows), RetNone, 1)
            ELSE LET inserted == InsertCells(rows, place.col + offset)
                 IN HostTableEdit(op, place, inserted.rows,
                                  IF inserted.threw THEN RetThrow ELSE RetNone,
                                  IF inserted.threw THEN 0 ELSE 1)

OnAddRowAboveClicked(place) == OnAddRowClicked("addRowAbove", 0, place)
OnAddRowBelowClicked(place) == OnAddRowClicked("addRowBelow", 1, place)
OnAddColumnBeforeClicked(place) == OnAddColumnClicked("addColumnBefore", 0, place)
OnAddColumnAfterClicked(place) == OnAddColumnClicked("addColumnAfter", 1, place)

\* Steps are counted by the specifications that bound their depth
\* What the operations of the history, the search and setContent leave alone;
\* the deferred step of setContent registers listeners, the others do not
IdleTables ==
    UNCHANGED <<steps, activeTable, isDragging, isResizing, dragStartY, tableStyle, batch,
                tableToolbarVisible>>
Idle == IdleTables /\ UNCHANGED handlers
Tick ==
    /\ steps < MaxSteps
    /\ steps' = steps + 1
    /\ UNCHANGED <<activeTable, isDragging, isResizing, dragStartY, tableStyle, batch,
                   handlers, tableToolbarVisible>>

\* --- the history manager alone: edits, undo, redo and their callbacks
Next ==
    \/ \E c \in Chars : Idle /\ UserInput(c)
    \/ Idle /\ CustomUndo
    \/ Idle /\ CustomRedo
    \/ Idle /\ InitialEntry
    \/ Idle /\ DeferredRestoreSelection
    \/ Idle /\ ResetFlag

Spec == Init /\ [][Next]_vars

\* --- the history manager with its timers firing: the event loop runs every
\* callback whose deadline has come
TimersFire ==
    /\ WF_vars(Idle /\ InitialEntry)
    /\ WF_vars(Idle /\ DeferredRestoreSelection)
    /\ WF_vars(Idle /\ ResetFlag)

LiveSpec == Init /\ [][Next]_vars /\ TimersFire

\* --- every operation and callback, in every interleaving, up to MaxSteps steps
FullNext ==
    \/ \E c \in Chars : Tick /\ UserInput(c)
    \/ Tick /\ CustomUndo
    \/ Tick /\ CustomRedo
    \/ \E t \in SearchTerms : Tick /\ SearchAndHighlight(t)
    \/ Tick /\ ClearSearch
    \/ \E r \in ReplaceTexts : Tick /\ ReplaceSelection(r)
    \/ \E t \in SearchTerms, r \in ReplaceTexts : Tick /\ ReplaceAll(t, r)
    \/ Tick /\ InitialEntry
    \/ Tick /\ DeferredEntry
    \/ Tick /\ DeferredRestoreSelection
    \/ Tick /\ ResetFlag
    \/ Tick /\ DeferredSearch

FullSpec == Init /\ [][FullNext]_vars

\* --- the search engine on a loaded document
RECURSIVE Texts(_)
\* The texts of at most n characters
Texts(n) ==
    IF n = 0 THEN {<<>>}
    ELSE Texts(n - 1)
           \cup {Append(t, c) : t \in {u \in Texts(n - 1) : Len(u) = n - 1}, c \in SearchChars}

\* A block holding text t; an empty block holds a <br>
Block(t) == DivNode(IF t = <<>> THEN <<BrNode>> ELSE <<TextNode(t)>>)

\* Documents of one or two blocks of text
SearchDocuments ==
    {<<Block(t)>> : t \in Texts(MaxSearchText)}
        \cup {<<Block(t), Block(u)>> : t \in Texts(MaxSearchText), u \in Texts(MaxBlockText)}

SearchInit ==
    /\ editor \in SearchDocuments
    /\ selection = NoSelection
    /\ editorHistory = <<>>
    /\ historyIndex = -1
    /\ isPerformingUndoRedo = FALSE
    /\ searchResults = <<>>
    /\ searchIndex = -1
    /\ currentSearchText = <<>>
    /\ timers = <<>>
    /\ call = Call("load", <<>>, RetNone, 0, 0, FALSE, FALSE)
    /\ run = NoRun
    /\ steps = 0
    /\ activeTable = 0
    /\ isDragging = FALSE
    /\ isResizing = FALSE
    /\ dragStartY = 0
    /\ tableStyle = NoStyles
    /\ batch = NoBatch
    /\ handlers = 1
    /\ tableToolbarVisible = FALSE

SearchNext ==
    \/ \E t \in SearchTerms : Idle /\ SearchAndHighlight(t)
    \/ Idle /\ ClearSearch
    \/ Idle /\ FindNext
    \/ Idle /\ FindPrevious

SearchSpec == SearchInit /\ [][SearchNext]_vars


\* --- replaceAll on a loaded document, with search, undo and redo
ReplaceAllTexts == {<<"a">>, <<"A">>, <<"$", "&">>}

\* Documents of one block of MaxSearchText characters
ReplaceDocuments == {<<Block(t)>> : t \in {u \in Texts(MaxSearchText) : Len(u) = MaxSearchText}}

\* The page after load, once the initial history entry was recorded and the
\* host has then set the content of a file (setContent records nothing)
ReplaceInit ==
    /\ editor \in ReplaceDocuments
    /\ selection = NoSelection
    /\ editorHistory = <<[content |-> InnerHTML(EmptyDocument), selection |-> NoSelection]>>
    /\ historyIndex = 0
    /\ isPerformingUndoRedo = FALSE
    /\ searchResults = <<>>
    /\ searchIndex = -1
    /\ currentSearchText = <<>>
    /\ timers = <<>>
    /\ call = Call("load", <<>>, RetNone, 0, 0, FALSE, FALSE)
    /\ run = NoRun
    /\ steps = 0
    /\ activeTable = 0
    /\ isDragging = FALSE
    /\ isResizing = FALSE
    /\ dragStartY = 0
    /\ tableStyle = NoStyles
    /\ batch = NoBatch
    /\ handlers = 1
    /\ tableToolbarVisible = FALSE

\* What batch becomes by a step; replaceText is the replacement when the
\* step is a replaceAll
BatchAfter(replaceText) ==
    CASE call'.op = "replaceAll" /\ call'.arg # <<>> ->
            [phase |-> "replaced", term |-> call'.arg, repl |-> replaceText,
             searched |-> call.op = "searchAndHighlight" /\ call.arg = call'.arg,
             before |-> InnerHTML(editor), after |-> InnerHTML(editor'),
             records |-> call'.recorded]
      [] call'.op = "historyEntry" /\ batch.phase = "replaced" ->
            [batch EXCEPT !.phase = "recorded", !.records = @ + call'.recorded]
      [] call'.op \in {"restoreSelection", "resetFlag"} -> batch
      [] call'.op = "customUndo" /\ batch.phase = "recorded" ->
            [batch EXCEPT !.phase = "undone"]
      [] call'.op = "customRedo" /\ batch.phase = "undone" ->
            [batch EXCEPT !.phase = "redone"]
      [] OTHER -> NoBatch

Track(replaceText) ==
    /\ steps' = steps + 1
    /\ batch' = BatchAfter(replaceText)
    /\ UNCHANGED <<activeTable, isDragging, isResizing, dragStartY, tableStyle,
                   handlers, tableToolbarVisible>>

\* Exploration stops after MaxReplaceSteps steps
More == steps < MaxReplaceSteps

ReplaceNext ==
    \/ More /\ \E t \in SearchTerms : SearchAndHighlight(t) /\ Track(<<>>)
    \/ More /\ \E t \in SearchTerms, r \in ReplaceAllTexts : ReplaceAll(t, r) /\ Track(r)
    \/ More /\ DeferredEntry /\ Track(<<>>)
    \/ More /\ CustomUndo /\ Track(<<>>)
    \/ More /\ CustomRedo /\ Track(<<>>)
    \/ More /\ DeferredRestoreSelection /\ Track(<<>>)
    \/ More /\ ResetFlag /\ Track(<<>>)

ReplaceSpec == ReplaceInit /\ [][ReplaceNext]_vars

\* --- replaceSelection on a loaded document, with search, undo and redo
\* What batch becomes by a step, batch following the last replaceSelection
\* that replaced a match of the document
CurrentBatchAfter ==
    CASE /\ call'.op = "replaceSelection"
         /\ call'.ret = RetBool(TRUE)
         /\ SpanStart(editor, searchResults[searchIndex + 1]) # -1 ->
            [phase |-> "replaced", term |-> currentSearchText, repl |-> call'.arg,
             searched |-> FALSE, before |-> InnerHTML(editor), after |-> InnerHTML(editor'),
             records |-> call'.recorded]
      [] call'.op = "historyEntry" /\ batch.phase = "replaced" ->
            [batch EXCEPT !.phase = "recorded", !.records = @ + call'.recorded]
      [] call'.op = "search" /\ batch.phase = "recorded" ->
            [batch EXCEPT !.searched = TRUE]
      [] call'.op \in {"restoreSelection", "resetFlag"} -> batch
      [] call'.op = "customUndo" /\ batch.phase = "recorded" /\ batch.searched ->
            [batch EXCEPT !.phase = "undone"]
      [] OTHER -> NoBatch

TrackCurrent ==
    /\ steps' = steps + 1
    /\ batch' = CurrentBatchAfter
    /\ UNCHANGED <<activeTable, isDragging, isResizing, dragStartY, tableStyle,
                   handlers, tableToolbarVisible>>

MoreCurrent == steps < MaxCurrentSteps

CurrentNext ==
    \/ MoreCurrent /\ \E t \in SearchTerms : SearchAndHighlight(t) /\ TrackCurrent
    \/ MoreCurrent /\ \E r \in ReplaceTexts : ReplaceSelection(r) /\ TrackCurrent
    \/ MoreCurrent /\ DeferredEntry /\ TrackCurrent
    \/ MoreCurrent /\ DeferredSearch /\ TrackCurrent
    \/ MoreCurrent /\ CustomUndo /\ TrackCurrent
    \/ MoreCurrent /\ CustomRedo /\ TrackCurrent
    \/ MoreCurrent /\ DeferredRestoreSelection /\ TrackCurrent
    \/ MoreCurrent /\ ResetFlag /\ TrackCurrent

CurrentSpec == ReplaceInit /\ [][CurrentNext]_vars

\* --- undo and redo of edits to a document the host has loaded
\* What the host loads: a file of one character
LoadedMarkups == {<<"a">>}

ReplayNext ==
    \/ \E html \in LoadedMarkups : Idle /\ SetContent(html)
    \/ IdleTables /\ DeferredWrap
    \/ \E c \in Chars : Idle /\ UserInput(c)
    \/ Idle /\ CustomUndo
    \/ Idle /\ CustomRedo
    \/ Idle /\ InitialEntry
    \/ Idle /\ DeferredRestoreSelection
    \/ Idle /\ ResetFlag

ReplaySpec == Init /\ [][ReplayNext]_vars

\* --- restoreSelection on a loaded document, highlighted or not
\* The selections saved earlier, of a text up to MaxSavedOffset characters
SavedSelections ==
    {NoSelection} \cup {Selection(a, b) : a, b \in 0..MaxSavedOffset}

SelectionNext ==
    \/ \E t \in SearchTerms : Idle /\ SearchAndHighlight(t)
    \/ Idle /\ ClearSearch
    \/ \E info \in {i \in SavedSelections : i.start <= i.end} :
          Idle /\ RestoreSelectionCall(info)
    \/ Idle /\ SetContent(<<>>)

SelectionSpec == ReplaceInit /\ [][SelectionNext]_vars

\* --- getWordCount on a loaded document, also while it is highlighted
HelloWorld == <<"H", "e", "l", "l", "o", " ", "w", "o", "r", "l", "d">>

\* The texts of a block: up to MaxWordText of "a", "A" and space
WordTexts == UNION {[1..n -> {"a", "A", " "}] : n \in 0..MaxWordText}

\* Documents of one block, or of two
WordDocuments ==
    {<<Block(HelloWorld)>>}
        \cup {<<Block(t)>> : t \in WordTexts}
        \cup {<<Block(t), Block(u)>> : t \in WordTexts, u \in Texts(1)}

WordInit ==
    /\ editor \in WordDocuments
    /\ selection = NoSelection
    /\ editorHistory = <<[content |-> InnerHTML(EmptyDocument), selection |-> NoSelection]>>
    /\ historyIndex = 0
    /\ isPerformingUndoRedo = FALSE
    /\ searchResults = <<>>
    /\ searchIndex = -1
    /\ currentSearchText = <<>>
    /\ timers = <<>>
    /\ call = Call("load", <<>>, RetNone, 0, 0, FALSE, FALSE)
    /\ run = NoRun
    /\ steps = 0
    /\ activeTable = 0
    /\ isDragging = FALSE
    /\ isResizing = FALSE
    /\ dragStartY = 0
    /\ tableStyle = NoStyles
    /\ batch = NoBatch
    /\ handlers = 1
    /\ tableToolbarVisible = FALSE

WordNext ==
    \/ Idle /\ GetWordCount
    \/ \E t \in SearchTerms : Idle /\ SearchAndHighlight(t)
    \/ Idle /\ ClearSearch
    \/ Idle /\ SetContent(<<>>)

WordSpec == WordInit /\ [][WordNext]_vars

\* --- setContent called by the host on a loaded page
MarkupItems ==
    {<<" ">>, <<"a">>, <<DivOpen, "a", DivClose>>, <<PreOpen, "a", PreClose>>}

\* Markup of at most two items, one after the other
Markups == {<<>>} \cup MarkupItems \cup {x \o y : x, y \in MarkupItems}

SetContentNext ==
    \/ \E html \in Markups : Idle /\ SetContent(html)
    \/ IdleTables /\ DeferredWrap
    \/ Idle /\ InitialEntry

SetContentSpec == Init /\ [][SetContentNext]_vars

\* --- the table operations on a loaded page
\* The documents setContent has loaded: the empty document, a block followed
\* by a table, and a table alone
TableDocuments ==
    {EmptyDocument, <<Block(<<"a">>), NewTable(1, 1, 1)>>, <<NewTable(1, 1, 1)>>}

TableInit ==
    /\ editor \in TableDocuments
    /\ selection = NoSelection
    /\ editorHistory = <<[content |-> InnerHTML(EmptyDocument), selection |-> NoSelection]>>
    /\ historyIndex = 0
    /\ isPerformingUndoRedo = FALSE
    /\ searchResults = <<>>
    /\ searchIndex = -1
    /\ currentSearchText = <<>>
    /\ timers = <<>>
    /\ call = Call("load", <<>>, RetNone, 0, 0, FALSE, FALSE)
    /\ run = NoRun
    /\ steps = 0
    /\ activeTable = 0
    /\ isDragging = FALSE
    /\ isResizing = FALSE
    /\ dragStartY = 0
    /\ tableStyle = LoadedStyles(editor)
    /\ batch = NoBatch
    /\ handlers = 1
    /\ tableToolbarVisible = FALSE

\* Where the pointer is: heights that are 30, 31 and 62 pixels apart
PointerYs == {0, 30, 31, 62}

\* Exploration stops after MaxTableSteps steps
MoreTable == steps < MaxTableSteps

TableNext ==
    \/ MoreTable /\ \E rows \in 1..MaxInsert, cols \in 1..MaxInsert, pos \in 0..Len(editor) :
                        InsertTable(rows, cols, pos)
    \/ MoreTable /\ DeferredActivateTable
    \/ MoreTable /\ DeactivateAllTables
    \/ MoreTable /\ \E id \in TableIds(editor) \cup {0} : Click(id)
    \/ MoreTable /\ DeleteTable
    \/ MoreTable /\ \E position \in {Undefined} \cup 0..MaxRows : AddTableRow(position)
    \/ MoreTable /\ \E position \in {Undefined} \cup 0..MaxCols : AddTableColumn(position)
    \/ MoreTable /\ \E rowIndex \in {Undefined} \cup 0..MaxRows : DeleteTableRow(rowIndex)
    \/ MoreTable /\ \E colIndex \in {Undefined} \cup 0..MaxCols : DeleteTableColumn(colIndex)
    \/ MoreTable /\ \E id \in TableIds(editor), clientY \in PointerYs : StartTableDrag(id, clientY)
    \/ MoreTable /\ \E clientY \in PointerYs : MouseMove(clientY)
    \/ MoreTable /\ MouseUp

TableSpec == TableInit /\ [][TableNext]_vars

\* --- pointer events on the handles of a table, table deletion and
\* deactivation
\* The documents loaded: a table after a block, with the white space of the
\* file between them; two tables around a block; a block and a table
DragDocuments ==
    {<<Block(<<"a">>), TextNode(<<" ">>), NewTable(1, 1, 1), PNode>>,
     <<NewTable(1, 1, 1), Block(<<"a">>), NewTable(1, 1, 2)>>,
     <<Block(<<"a">>), NewTable(1, 1, 1)>>,
     <<Block(<<"a">>), DivNode(<<TextNode(<<"b">>), NewTable(1, 1, 1)>>)>>}

DragInit ==
    /\ editor \in DragDocuments
    /\ selection = NoSelection
    /\ editorHistory = <<[content |-> InnerHTML(EmptyDocument), selection |-> NoSelection]>>
    /\ historyIndex = 0
    /\ isPerformingUndoRedo = FALSE
    /\ searchResults = <<>>
    /\ searchIndex = -1
    /\ currentSearchText = <<>>
    /\ timers = <<>>
    /\ call = Call("load", <<>>, RetNone, 0, 0, FALSE, FALSE)
    /\ run = NoRun
    /\ steps = 0
    /\ activeTable = 0
    /\ isDragging = FALSE
    /\ isResizing = FALSE
    /\ dragStartY = 0
    /\ tableStyle = LoadedStyles(editor)
    /\ batch = NoBatch
    /\ handlers = 1
    /\ tableToolbarVisible = FALSE

\* What setContent is called with during a drag: nothing, blank and text
DragMarkups == {<<>>, <<" ">>, <<"b">>}

DragTables ==
    /\ MoreTable
    /\ steps' = steps + 1
    /\ UNCHANGED <<activeTable, isDragging, isResizing, dragStartY, tableStyle, batch,
                   tableToolbarVisible>>
DragTick == DragTables /\ UNCHANGED handlers

DragNext ==
    \/ MoreTable /\ \E id \in TableIds(editor) \cup {0} : Click(id)
    \/ MoreTable /\ \E id \in TableIds(editor), clientY \in PointerYs : StartTableDrag(id, clientY)
    \/ MoreTable /\ \E id \in TableIds(editor), clientY \in PointerYs : StartTableResize(id, clientY)
    \/ MoreTable /\ \E clientY \in PointerYs : MouseMove(clientY)
    \/ MoreTable /\ MouseUp
    \/ MoreTable /\ DeleteTable
    \/ MoreTable /\ DeactivateAllTables
    \/ \E html \in DragMarkups : DragTick /\ SetContent(html)
    \/ DragTables /\ DeferredWrap

DragSpec == DragInit /\ [][DragNext]_vars

\* --- activation and alignment of the tables of a loaded document
\* The class attributes and widths of the tables of the file
LoadedClassNames ==
    {<<>>, <<"bordered">>, <<"left-align">>, <<"right-align">>, <<"center-align">>,
     <<"no-wrap">>, <<"bordered", "left-align">>, <<"right-align", "left-align">>}

LoadedTableStyles == {Style(c, w) : c \in LoadedClassNames, w \in {"", "px"}}

AlignDocuments ==
    {<<Block(<<"a">>), NewTable(1, 1, 1)>>, <<NewTable(1, 1, 1), NewTable(1, 1, 2)>>}

AlignInit ==
    /\ editor \in AlignDocuments
    /\ selection = NoSelection
    /\ editorHistory = <<[content |-> InnerHTML(EmptyDocument), selection |-> NoSelection]>>
    /\ historyIndex = 0
    /\ isPerformingUndoRedo = FALSE
    /\ searchResults = <<>>
    /\ searchIndex = -1
    /\ currentSearchText = <<>>
    /\ timers = <<>>
    /\ call = Call("load", <<>>, RetNone, 0, 0, FALSE, FALSE)
    /\ run = NoRun
    /\ steps = 0
    /\ activeTable = 0
    /\ isDragging = FALSE
    /\ isResizing = FALSE
    /\ dragStartY = 0
    /\ tableStyle \in [TableIds(editor) -> LoadedTableStyles]
    /\ batch = NoBatch
    /\ handlers = 1
    /\ tableToolbarVisible = FALSE

MoreAlign == steps < MaxAlignSteps

AlignNext ==
    \/ MoreAlign /\ \E id \in TableIds(editor) \cup {0} : Click(id)
    \/ MoreAlign /\ \E pos \in 0..Len(editor) : InsertTable(1, 1, pos)
    \/ MoreAlign /\ DeferredActivateTable
    \/ MoreAlign /\ DeactivateAllTables
    \/ MoreAlign /\ OnTableAlignLeft
    \/ MoreAlign /\ OnTableAlignCenter
    \/ MoreAlign /\ OnTableAlignRight
    \/ MoreAlign /\ OnTableFullWidth

AlignSpec == AlignInit /\ [][AlignNext]_vars

\* --- the host's insert commands on a page with tables
CommandNext ==
    \/ MoreTable /\ \E rows \in 1..MaxInsert, cols \in 1..MaxInsert, pos \in 0..Len(editor) :
                        InsertTable(rows, cols, pos)
    \/ MoreTable /\ DeferredActivateTable
    \/ MoreTable /\ \E id \in TableIds(editor) \cup {0} : Click(id)
    \/ MoreTable /\ \E place \in Places(editor) : OnAddRowAboveClicked(place)
    \/ MoreTable /\ \E place \in Places(editor) : OnAddRowBelowClicked(place)
    \/ MoreTable /\ \E place \in Places(editor) : OnAddColumnBeforeClicked(place)
    \/ MoreTable /\ \E place \in Places(editor) : OnAddColumnAfterClicked(place)

CommandSpec == TableInit /\ [][CommandNext]_vars

\* ------------------------------------------------------------------ properties
\* The operations that call createHistoryEntry
\* --- a document with a table opened over a history: clicks, search, undo and
\* redo, then setContent
LoadDocuments == {<<Block(<<"a">>), NewTable(1, 1, 1)>>, <<NewTable(1, 1, 1), Block(<<"a">>)>>}

\* The user typed "a" (the second entry) and then opened a file with a table:
\* setContent leaves the history as it was
LoadInit ==
    /\ editor \in LoadDocuments
    /\ selection = NoSelection
    /\ editorHistory = <<[content |-> InnerHTML(EmptyDocument), selection |-> NoSelection],
                         [content |-> <<DivOpen, "a", DivClose>>, selection |-> Selection(1, 1)]>>
    /\ historyIndex = 1
    /\ isPerformingUndoRedo = FALSE
    /\ searchResults = <<>>
    /\ searchIndex = -1
    /\ currentSearchText = <<>>
    /\ timers = <<>>
    /\ call = Call("load", <<>>, RetNone, 0, 0, FALSE, FALSE)
    /\ run = NoRun
    /\ steps = 0
    /\ activeTable = 0
    /\ isDragging = FALSE
    /\ isResizing = FALSE
    /\ dragStartY = 0
    /\ tableStyle = LoadedStyles(editor)
    /\ batch = NoBatch
    /\ handlers = 1
    /\ tableToolbarVisible = FALSE

MoreLoad == steps < MaxLoadSteps
LoadTables ==
    /\ MoreLoad
    /\ steps' = steps + 1
    /\ UNCHANGED <<activeTable, isDragging, isResizing, dragStartY, tableStyle, batch,
                   tableToolbarVisible>>
LoadTick == LoadTables /\ UNCHANGED handlers

LoadNext ==
    \/ MoreLoad /\ \E id \in TableIds(editor) \cup {0} : Click(id)
    \/ \E t \in {<<"a">>} : LoadTick /\ SearchAndHighlight(t)
    \/ LoadTick /\ CustomUndo
    \/ LoadTick /\ CustomRedo
    \/ LoadTick /\ DeferredRestoreSelection
    \/ LoadTick /\ ResetFlag
    \/ \E html \in {<<>>, <<"b">>, <<DivOpen, "a", DivClose>>} : LoadTick /\ SetContent(html)
    \/ LoadTables /\ DeferredWrap

LoadSpec == LoadInit /\ [][LoadNext]_vars

\* --- a session on a document with a table: the table toolbar of the host
\* with clicks, insertTable, the toolbar's delete and close buttons, undo,
\* redo and setContent
MoreSession == steps < MaxSessionSteps
SessionTables ==
    /\ MoreSession
    /\ steps' = steps + 1
    /\ UNCHANGED <<activeTable, isDragging, isResizing, dragStartY, tableStyle, batch,
                   tableToolbarVisible>>
SessionTick == SessionTables /\ UNCHANGED handlers

SessionNext ==
    \/ MoreSession /\ \E id \in TableIds(editor) \cup {0} : Click(id)
    \/ MoreSession /\ \E pos \in 0..Len(editor) : InsertTable(1, 1, pos)
    \/ MoreSession /\ DeferredActivateTable
    \/ MoreSession /\ tableToolbarVisible /\ DeleteTable
    \/ MoreSession /\ tableToolbarVisible /\ DeactivateAllTables
    \/ SessionTick /\ CustomUndo
    \/ SessionTick /\ CustomRedo
    \/ SessionTick /\ DeferredRestoreSelection
    \/ SessionTick /\ ResetFlag
    \/ \E html \in {<<>>, <<"b">>} : SessionTick /\ SetContent(html)
    \/ SessionTables /\ DeferredWrap

SessionSpec == LoadInit /\ [][SessionNext]_vars

RecordingOps == {"input", "replaceSelection", "replaceAll", "historyEntry", "initialEntry"}

\* C1: in every reachable state, an empty history has historyIndex = -1 and a
\* non-empty one has 0 <= historyIndex < editorHistory.length.
C1_HistoryIndexInRange ==
    IF editorHistory = <<>>
    THEN historyIndex = -1
    ELSE 0 <= historyIndex /\ historyIndex < Len(editorHistory)

\* A replace has recorded and an undo has then moved the index back
C1_Witness ==
    /\ call.op = "customUndo"
    /\ call.ret = RetBool(TRUE)
    /\ Len(editorHistory) >= 3
    /\ historyIndex < Len(editorHistory) - 1

\* C2: a createHistoryEntry that records while historyIndex = i is before the
\* last entry keeps entries 0..i, discards the rest, appends the new entry at
\* i+1 and leaves historyIndex = i+1, the last position; a customRedo issued
\* right after returns false.
C2_EntryAfterUndoTruncates ==
    [][/\ (call'.recorded = 1 /\ historyIndex >= 0 /\ historyIndex < Len(editorHistory) - 1)
          => /\ Len(editorHistory') = historyIndex + 2
             /\ SubSeq(editorHistory', 1, historyIndex + 1)
                    = SubSeq(editorHistory, 1, historyIndex + 1)
             /\ EntryAt(editorHistory', historyIndex + 1).content = InnerHTML(editor')
             /\ historyIndex' = historyIndex + 1
             /\ NothingToRedo(editorHistory', historyIndex')
       /\ (call.trimmed /\ call'.op = "customRedo")
          => /\ call'.ret = RetBool(FALSE)
             /\ UNCHANGED <<editor, editorHistory, historyIndex>>
      ]_vars

\* An entry has just been recorded over a discarded redo tail
C2_Witness ==
    /\ call.trimmed
    /\ call.recorded = 1
    /\ Len(editorHistory) >= 2
    /\ historyIndex = Len(editorHistory) - 1

\* C3: after edits that are each followed by their record, N successful
\* customUndo calls and then N customRedo calls with no edit in between leave
\* the editor content and historyIndex as they were right after the edits.
C3_UndoRedoRoundTrip ==
    (run.active /\ run.depth = 0)
        => /\ InnerHTML(editor) = run.content
           /\ historyIndex = run.index

\* Two undos have been redone
C3_Witness ==
    /\ run.active
    /\ run.depth = 0
    /\ run.peak >= 2
    /\ call.op = "customRedo"
    /\ call.ret = RetBool(TRUE)

\* C4: customUndo with an empty history or historyIndex <= 0, and customRedo
\* with an empty history or historyIndex at the last entry, return false and
\* change nothing, send no notification and raise no error.
C4_BoundaryCallsChangeNothing ==
    [][(\/ call'.op = "customUndo" /\ (Len(editorHistory) = 0 \/ historyIndex <= 0)
        \/ call'.op = "customRedo"
             /\ (Len(editorHistory) = 0 \/ historyIndex >= Len(editorHistory) - 1))
       => /\ call'.ret = RetBool(FALSE)
          /\ call'.posted = 0
          /\ UNCHANGED <<editor, editorHistory, historyIndex, isPerformingUndoRedo,
                         selection, timers>>
      ]_vars

\* An undo was refused on a history of one entry
C4_Witness ==
    /\ call.op = "customUndo"
    /\ call.ret = RetBool(FALSE)
    /\ Len(editorHistory) = 1
    /\ historyIndex = 0
    /\ ~isPerformingUndoRedo

\* C5: a customUndo that does not fail moves historyIndex down by one, sets
\* the content to that of the entry at the new index, sends one notification
\* and returns true; a customRedo that does not fail does so one up.
C5_ReplayRestoresEntry ==
    [][/\ (call'.op = "customUndo" /\ Len(editorHistory) > 0 /\ historyIndex > 0)
          => /\ historyIndex' = historyIndex - 1
             /\ InnerHTML(editor') = EntryAt(editorHistory, historyIndex - 1).content
             /\ call'.posted = 1
             /\ call'.ret = RetBool(TRUE)
             /\ editorHistory' = editorHistory
       /\ (call'.op = "customRedo" /\ Len(editorHistory) > 0
             /\ historyIndex < Len(editorHistory) - 1)
          => /\ historyIndex' = historyIndex + 1
             /\ InnerHTML(editor') = EntryAt(editorHistory, historyIndex + 1).content
             /\ call'.posted = 1
             /\ call'.ret = RetBool(TRUE)
             /\ editorHistory' = editorHistory
      ]_vars

\* An undo has put back a content other than the one before it
C5_Witness ==
    /\ call.op = "customUndo"
    /\ call.ret = RetBool(TRUE)
    /\ call.posted = 1
    /\ InnerHTML(editor) = EntryAt(editorHistory, historyIndex).content
    /\ InnerHTML(editor) # EntryAt(editorHistory, historyIndex + 1).content

\* C6: while isPerformingUndoRedo is set, createHistoryEntry is a no-op
\* whoever calls it: editorHistory and historyIndex stay unchanged.
C6_NoEntryWhileReplaying ==
    [][(isPerformingUndoRedo /\ call'.op \in RecordingOps)
       => /\ UNCHANGED <<editorHistory, historyIndex>>
          /\ call'.recorded = 0
      ]_vars

\* replaceAll has rewritten the content while the flag was set
C6_Witness ==
    /\ isPerformingUndoRedo
    /\ call.op = "replaceAll"
    /\ call.ret # RetNum(0)
    /\ call.recorded = 0

\* C7: every input event caused by a user edit appends a history entry holding
\* the content after that edit, in every interleaving with customUndo,
\* customRedo and their deferred continuations.
C7_EveryUserEditRecorded ==
    [][call'.op = "input"
       => /\ Len(editorHistory') = LenAfterEntry
          /\ historyIndex' = Len(editorHistory') - 1
          /\ EntryAt(editorHistory', historyIndex').content = InnerHTML(editor')
      ]_vars

\* C8: the first history entry is the empty baseline: in every interleaving of
\* user edits with the deferred initial createHistoryEntry, once customUndo
\* returns false the editor content is the initial empty document.
C8_UndoEndsAtEmptyBaseline ==
    /\ editorHistory # <<>> => editorHistory[1].content = InnerHTML(EmptyDocument)
    /\ (call.op = "customUndo" /\ call.ret = RetBool(FALSE) /\ ~isPerformingUndoRedo)
          => InnerHTML(editor) = InnerHTML(EmptyDocument)

\* C9: searchAndHighlight with an empty term returns 0, leaves searchResults
\* empty and searchIndex = -1 and introduces no highlight span; apart from
\* removing the highlights of a previous search the document is unchanged.
C9_EmptyTermFindsNothing ==
    [][(call'.op = "searchAndHighlight" /\ call'.arg = <<>>)
       => /\ call'.ret = RetNum(0)
          /\ searchResults' = <<>>
          /\ searchIndex' = -1
          /\ HighlightCount(editor') = 0
          /\ TextContent(editor') = TextContent(editor)
          /\ HighlightCount(editor) = 0 => editor' = editor
      ]_vars

\* An empty search has removed the highlights of the search before it
C9_Witness ==
    /\ call.op = "searchAndHighlight"
    /\ call.arg = <<>>
    /\ call.cleared
    /\ call.ret = RetNum(0)

RECURSIVE WrapOccurrences(_, _)
\* The pieces of a text with its non-overlapping occurrences of term, taken
\* left to right, each wrapped in a highlight span
WrapOccurrences(text, term) ==
    LET index == IndexOf(text, term, 0) IN
    IF index = -1 THEN <<TextNode(text)>>
    ELSE <<TextNode(SubSeq(text, 1, index)), HlNode(term, 0)>>
         \o WrapOccurrences(SubSeq(text, index + Len(term) + 1, Len(text)), term)

RECURSIVE WrapDocument(_, _)
\* A document with the occurrences in each of its text nodes wrapped
WrapDocument(ns, term) ==
    IF ns = <<>> THEN <<>>
    ELSE LET n == Head(ns) IN
         (IF n.kind = "text" THEN WrapOccurrences(n.text, term)
          ELSE IF n.kind = "div" THEN <<DivNode(WrapDocument(n.kids, term))>>
          ELSE <<n>>) \o WrapDocument(Tail(ns), term)

\* C10: for every non-empty term and document, searchAndHighlight wraps exactly
\* the non-overlapping literal occurrences of the term inside each text node
\* in a highlight span, leaves the document text unchanged and returns a count
\* equal to the number of highlight spans and to searchResults.length.
C10_SearchWrapsOccurrences ==
    [][(call'.op = "searchAndHighlight" /\ call'.arg # <<>>)
       => /\ InnerHTML(editor') = InnerHTML(WrapDocument(ClearSearchDom(editor), call'.arg))
          /\ TextContent(editor') = TextContent(editor)
          /\ call'.ret = RetNum(HighlightCount(editor'))
          /\ call'.ret = RetNum(Len(searchResults'))
      ]_vars

\* C11: with k >= 1 matches findNext sets searchIndex to (searchIndex + 1) mod k
\* and findPrevious to (searchIndex - 1) mod k, and each selects the span at
\* the new index; with no matches both return false and leave searchIndex
\* unchanged.
C11_FindCyclesThroughMatches ==
    [][/\ (call'.op \in {"findNext", "findPrevious"} /\ Len(searchResults) >= 1)
          => LET k == Len(searchResults)
                 step == IF call'.op = "findNext" THEN 1 ELSE -1
             IN /\ searchIndex' = (searchIndex + step) % k
                /\ call'.ret = RetBool(TRUE)
                /\ SpanStart(editor', searchResults'[searchIndex' + 1]) # -1
                /\ selection' = SelectSpan(editor', searchResults'[searchIndex' + 1])
                /\ UNCHANGED <<editor, searchResults>>
       /\ (call'.op \in {"findNext", "findPrevious"} /\ Len(searchResults) = 0)
          => /\ call'.ret = RetBool(FALSE)
             /\ UNCHANGED <<searchIndex, selection, editor>>
      ]_vars

\* Does text hold an occurrence of term ?
Contains(text, term) == IndexOf(text, term, 0) # -1

\* C12: for every content, term and replacement text that does not contain
\* the term, searchAndHighlight(term) followed by replaceAll(term, repl)
\* leaves a document in which a subsequent searchAndHighlight(term) returns 0.
C12_NoMatchLeftAfterReplaceAll ==
    [][(/\ batch.phase \in {"replaced", "recorded"}
        /\ batch.searched
        /\ ~Contains(batch.repl, batch.term)
        /\ call'.op = "searchAndHighlight"
        /\ call'.arg = batch.term)
       => call'.ret = RetNum(0)
      ]_vars

RECURSIVE Substitute(_, _, _)
\* content with every non-overlapping occurrence of term, left to right,
\* replaced by text as it is
Substitute(content, term, text) ==
    IF content = <<>> THEN <<>>
    ELSE IF OccursAt(content, term, 0)
         THEN text \o Substitute(SubSeq(content, Len(term) + 1, Len(content)), term, text)
         ELSE <<Head(content)>> \o Substitute(Tail(content), term, text)

RECURSIVE Occurrences(_, _)
\* The number of non-overlapping occurrences of term in content
Occurrences(content, term) ==
    IF content = <<>> THEN 0
    ELSE IF OccursAt(content, term, 0)
         THEN 1 + Occurrences(SubSeq(content, Len(term) + 1, Len(content)), term)
         ELSE Occurrences(Tail(content), term)

\* C13: replaceAll(term, text) with a non-empty term sets the serialized markup
\* to the old markup (search highlighting removed) with every non-overlapping
\* literal occurrence of term replaced by text exactly as given, and returns
\* the number of occurrences replaced; with an empty term it returns 0,
\* changes nothing and records no history entry.
C13_ReplaceAllSubstitutesLiterally ==
    [][/\ (call'.op = "replaceAll" /\ call'.arg # <<>>)
          => LET old == InnerHTML(ClearSearchDom(editor)) IN
             /\ InnerHTML(editor') = Substitute(old, batch'.term, batch'.repl)
             /\ call'.ret = RetNum(Occurrences(old, batch'.term))
       /\ (call'.op = "replaceAll" /\ call'.arg = <<>>)
          => /\ call'.ret = RetNum(0)
             /\ call'.recorded = 0
             /\ UNCHANGED <<editor, editorHistory, historyIndex, timers>>
      ]_vars

\* C14: replaceAll is one undo step: after replaceAll and its deferred
\* after-record have run, a single customUndo restores the editor content to
\* what it was immediately before replaceAll was called, and a single
\* customRedo then brings back the replaced content.
C14_ReplaceAllIsOneUndoStep ==
    /\ batch.phase = "undone" => InnerHTML(editor) = batch.before
    /\ batch.phase = "redone" => InnerHTML(editor) = batch.after

\* The tag names the content model recognizes as block level
RecognizedTags ==
    {<<"d", "i", "v">>, <<"p">>, <<"u", "l">>, <<"o", "l">>, <<"t", "a", "b", "l", "e">>}
        \cup {<<"h", n>> : n \in {"1", "2", "3", "4", "5", "6"}}

\* Does the string start with a tag of that name ?
StartsWithTag(s, name) ==
    /\ StartsWith(s, <<"<">> \o name)
    /\ Len(s) > Len(name) + 1
    /\ s[Len(name) + 2] \in {">", " ", "/"}

\* C16: setContent(markup): if markup is empty or only whitespace the document
\* becomes exactly one empty block; otherwise, if the trimmed markup does not
\* start with a recognized block-level tag (div, p, heading, ul, ol, table) it
\* is wrapped in one block element, and if it does it is stored unchanged.
C16_SetContentWrapsUnlessBlock ==
    [][call'.op = "setContent"
       => LET html == call'.arg
              trimmed == Trim(MarkupChars(html))
          IN IF trimmed = <<>>
             THEN editor' = EmptyDocument
             ELSE IF \E name \in RecognizedTags : StartsWithTag(trimmed, name)
                  THEN InnerHTML(editor') = html
                  ELSE InnerHTML(editor') = <<DivOpen>> \o html \o <<DivClose>>
      ]_vars

\* The kinds of element that are block level
BlockKinds == {"div", "p", "pre", "table"}

\* C15: after any sequence of operations (setContent, table deletion, undo and
\* redo, replaceAll, table drag) the editor root contains at least one
\* block-level child; it is never left with no children.
C15_EditorKeepsABlock ==
    \E i \in 1..Len(editor) : editor[i].kind \in BlockKinds

\* The tables of the document that carry a handle
TablesWithHandles(doc) == {id \in TableIds(doc) : HandlesOf(TableOf(doc, id)) # <<>>}

\* C17: at most one table is active at any time: in every reachable state at
\* most one table of the document carries interaction handles and, if one
\* does, it is the table activeTable refers to.
C17_AtMostOneActiveTable ==
    /\ Cardinality(TablesWithHandles(editor)) <= 1
    /\ TablesWithHandles(editor) \subseteq {activeTable}

\* C18: insertTable(rows, cols) with rows >= 1 and cols >= 1 inserts a table of
\* exactly rows rows of exactly cols cells each, and once its deferred
\* activation has run the active table is that newly inserted table, wherever
\* it was inserted and whatever other tables exist.
C18_InsertTableActivatesNewTable ==
    [][/\ call'.op = "insertTable"
          => LET id == call'.arg[3] IN
             /\ id \notin TableIds(editor)
             /\ id \in TableIds(editor')
             /\ LET rows == Rows(TableOf(editor', id)) IN
                /\ Len(rows) = call'.arg[1]
                /\ \A i \in 1..Len(rows) : Len(rows[i].kids) = call'.arg[2]
       /\ (call'.op = "activateTable" /\ call'.arg[1] \in TableIds(editor))
          => activeTable' = call'.arg[1]
      ]_vars

C20_RestoreSelectionClamps ==
    [][call'.op = "restoreSelection"
       => IF call'.arg = <<>>
          THEN call'.ret = RetBool(FALSE) /\ UNCHANGED <<selection, editor>>
          ELSE LET length == Len(TextContent(editor)) IN
               /\ call'.ret = RetBool(TRUE)
               /\ selection' = Selection(Min(call'.arg[1], length), Min(call'.arg[2], length))
               /\ selection'.end <= Len(TextContent(editor'))
               /\ UNCHANGED editor
      ]_vars

\* restoreSelection was called with both offsets beyond a text that is spread
\* over several text nodes, and placed the selection at the end of the text
C20_Witness ==
    /\ call.op = "restoreSelection"
    /\ call.arg # <<>>
    /\ call.arg[1] > Len(TextContent(editor))
    /\ call.ret = RetBool(TRUE)
    /\ selection = Selection(Len(TextContent(editor)), Len(TextContent(editor)))
    /\ HighlightCount(editor) >= 2

\* The number of maximal runs of characters that are not white space
Words(text) ==
    Cardinality({i \in 1..Len(text) :
                    /\ text[i] \notin Whitespace
                    /\ i = 1 \/ text[i - 1] \in Whitespace})

\* C21: getWordCount returns words = the number of whitespace-delimited
\* non-empty tokens of the editor's visible text (0 when the text is empty or
\* only white space) and chars = the length of that text, computed from the
\* current content on every call; for "<div>Hello world</div>" it returns
\* words 2 and chars 11.
C21_WordCountOfVisibleText ==
    [][call'.op = "getWordCount"
       => /\ call'.ret.num = Words(InnerText(editor))
          /\ call'.ret.chars = Len(InnerText(editor))
          /\ TextContent(editor) = HelloWorld
             => call'.ret.num = 2 /\ call'.ret.chars = 11
          /\ UNCHANGED editor
      ]_vars

\* getWordCount was called on a highlighted document of two blocks whose text
\* starts with a space and holds two words
C21_Witness ==
    /\ call.op = "getWordCount"
    /\ call.ret.num = 2
    /\ Len(editor) = 2
    /\ HighlightCount(editor) >= 1
    /\ Head(TextContent(editor)) = " "

\* C22: after searchAndHighlight finds k >= 1 matches, searchResults lists the
\* highlight spans in document order: the current match (index 0) is the first
\* occurrence in the document and each findNext moves to the next occurrence
\* in document order.
C22_MatchesInDocumentOrder ==
    [][/\ (/\ call'.op = "searchAndHighlight"
           /\ call'.ret.kind = "num"
           /\ call'.ret.num >= 1)
          => /\ searchIndex' = 0
             /\ \A i, j \in 1..Len(searchResults') :
                   i < j => SpanStart(editor', searchResults'[i])
                               < SpanStart(editor', searchResults'[j])
             /\ selection'.start = SpanStart(editor', searchResults'[1])
       /\ (/\ call'.op = "findNext"
           /\ call'.ret = RetBool(TRUE)
           /\ searchIndex >= 0
           /\ searchIndex' > searchIndex)
          => SpanStart(editor', searchResults'[searchIndex' + 1])
                > SpanStart(editor, searchResults[searchIndex + 1])
      ]_vars

\* C23: stale match spans are never used: whenever findNext, findPrevious or
\* replaceSelection acts on searchResults[searchIndex], that span is a
\* highlight span attached to the current document, in every interleaving of
\* search, replaceSelection and its deferred re-search, replaceAll, customUndo,
\* customRedo and setContent.
C23_NoStaleSpanUsed ==
    [][/\ (call'.op \in {"findNext", "findPrevious"} /\ call'.ret = RetBool(TRUE))
          => SpanStart(editor, searchResults[searchIndex' + 1]) # -1
       /\ (call'.op = "replaceSelection" /\ call'.ret = RetBool(TRUE))
          => SpanStart(editor, searchResults[searchIndex + 1]) # -1
      ]_vars

\* C24: replaceSelection with a current match is one undo step: it records a
\* before entry, replaces the current match with the given text, records an
\* after entry, and after its deferred steps have run a single customUndo
\* restores the content to what it was immediately before the replacement; the
\* match list is rebuilt for the same search term.
C24_ReplaceSelectionIsOneUndoStep ==
    [][/\ batch'.phase = "undone" => InnerHTML(editor') = batch'.before
       /\ (call'.op = "search" /\ batch.phase = "recorded")
          => /\ call'.arg = batch.term
             /\ currentSearchText' = batch.term
      ]_vars

\* C25: after a bulk HTML injection by setContent and its deferred wrap pass,
\* no direct child of the editor root is a text node, and running the wrap
\* pass again changes nothing.
C25_NoTextNodeAtRoot ==
    (timers = <<>> /\ call.op \in {"setContent", "wrapUnwrappedText"})
        => /\ \A i \in 1..Len(editor) : editor[i].kind # "text"
           /\ WrapUnwrappedText(editor) = editor

\* C26: after consecutive successful customUndo/customRedo calls and all
\* their deferred selection restores, with no other operation in between, the
\* selection is the one stored in the history entry at the current
\* historyIndex, clamped to the current text length, and not the selection of
\* an entry passed through on the way: where the entry stores no selection,
\* the selection is as the content restore left it.
C26_SelectionOfCurrentEntry ==
    (/\ run.active /\ run.peak >= 1
     /\ \A i \in 1..Len(timers) : timers[i].kind # "restoreSelection")
    => LET stored == EntryAt(editorHistory, historyIndex).selection
           length == Len(TextContent(editor))
       IN IF stored.none
          THEN selection \in {NoSelection, Selection(0, 0)}
          ELSE selection = Selection(Min(stored.start, length), Min(stored.end, length))

\* C27: with an active table, insert row above/below and insert column
\* before/after insert next to the cell of that table that contains the
\* selection; whenever the selection is not inside a cell of the active table
\* (elsewhere in the document, inside another table, or absent) exactly one
\* row/column is appended at the end of the active table and no error is
\* raised.
C27_InsertNextToCellOrAppend ==
    [][(call'.op \in {"addRowAbove", "addRowBelow", "addColumnBefore", "addColumnAfter"}
        /\ activeTable # 0)
       => LET place == call'.arg[2]
              offset == IF call'.op \in {"addRowBelow", "addColumnAfter"} THEN 1 ELSE 0
              before == Rows(TableOf(editor, activeTable))
              after == Rows(TableOf(editor', activeTable))
              inActive == place.kind = "cell" /\ place.table = activeTable
              index == IF inActive THEN (IF call'.op \in {"addRowAbove", "addRowBelow"}
                                         THEN place.row ELSE place.col) + offset
                       ELSE -1
          IN /\ call'.ret # RetThrow
             /\ IF call'.op \in {"addRowAbove", "addRowBelow"}
                THEN /\ Len(after) = Len(before) + 1
                     /\ LET at == IF inActive THEN index ELSE Len(before) IN
                        /\ SubSeq(after, 1, at) = SubSeq(before, 1, at)
                        /\ SubSeq(after, at + 2, Len(after)) = SubSeq(before, at + 1, Len(before))
                ELSE /\ Len(after) = Len(before)
                     /\ \A i \in 1..Len(before) :
                           LET at == IF inActive THEN index ELSE Len(before[i].kids) IN
                           /\ Len(after[i].kids) = Len(before[i].kids) + 1
                           /\ at <= Len(before[i].kids)
                           /\ SubSeq(after[i].kids, 1, at) = SubSeq(before[i].kids, 1, at)
                           /\ SubSeq(after[i].kids, at + 2, Len(after[i].kids))
                                = SubSeq(before[i].kids, at + 1, Len(before[i].kids))
      ]_vars

\* C28: a drag or resize is in progress only for an active table: whenever
\* isDragging or isResizing is set, activeTable refers to a table that is in
\* the document, in every interleaving of pointer events with table deletion
\* and deactivation; a mouseup always clears both flags and leaves the table
\* active.
C28_DragOnlyOfActiveTable ==
    [][/\ (isDragging' \/ isResizing') => activeTable' \in TableIds(editor')
       /\ call'.op = "mouseup"
          => /\ ~isDragging' /\ ~isResizing'
             /\ activeTable' = activeTable
      ]_vars

\* C29: during a drag, a pointer move reorders the table only when the
\* vertical distance from the drag anchor exceeds 30 pixels, and then by
\* exactly one position among the root's block-level children in the direction
\* of the move; the anchor is reset to the pointer position after each
\* reorder, so one pointer move never moves the table by more than one
\* position.
C29_DragMovesOnePosition ==
    [][(call'.op = "mousemove" /\ isDragging /\ activeTable \in TableIds(editor))
       => LET clientY == call'.arg[1]
              distance == IF clientY < dragStartY THEN dragStartY - clientY
                          ELSE clientY - dragStartY
              Holds(n) == activeTable \in TableIds(<<n>>)
              BlocksOf(doc) == SelectSeq(doc, LAMBDA n : n.kind \in {"div", "p", "pre", "table"})
              PlaceOf(doc) == CHOOSE i \in 1..Len(BlocksOf(doc)) : Holds(BlocksOf(doc)[i])
          IN /\ activeTable \in TableIds(editor')
             /\ WithoutTable(editor', activeTable) = WithoutTable(editor, activeTable)
             /\ IF editor' # editor
                THEN /\ distance > 30
                     /\ PlaceOf(editor') = PlaceOf(editor) + (IF clientY < dragStartY THEN -1 ELSE 1)
                     /\ dragStartY' = clientY
                ELSE PlaceOf(editor') = PlaceOf(editor)
      ]_vars

C31_ReplayKeepsHistory ==
    [][call'.op \in {"customUndo", "customRedo"}
       => UNCHANGED <<editorHistory, searchResults, searchIndex, currentSearchText,
                      activeTable, isDragging, isResizing, dragStartY>>
      ]_vars

\* An undo has restored an entry that has a later entry after it, with
\* search results held
C31_Witness ==
    /\ call.op = "customUndo"
    /\ call.ret = RetBool(TRUE)
    /\ historyIndex + 1 < Len(editorHistory)
    /\ searchResults # <<>>

\* C32: after every successful customUndo or customRedo the replaying flag is
\* eventually reset to false, provided timers fire, also when the reset timers
\* of several calls overlap: it is never left set forever.
C32_FlagEventuallyReset ==
    (/\ call.op \in {"customUndo", "customRedo"}
     /\ call.ret = RetBool(TRUE)
     /\ isPerformingUndoRedo) ~> ~isPerformingUndoRedo

\* A redo has succeeded while the reset of an earlier replay was still pending
C32_Witness ==
    /\ call.op = "customRedo"
    /\ call.ret = RetBool(TRUE)
    /\ isPerformingUndoRedo
    /\ Cardinality({i \in 1..Len(timers) : timers[i].kind = "resetFlag"}) >= 2

\* C33: in every reachable state of the search engine searchResults is empty
\* exactly when searchIndex = -1, and otherwise
\* 0 <= searchIndex < searchResults.length.
C33_SearchIndexInRange ==
    IF searchResults = <<>>
    THEN searchIndex = -1
    ELSE 0 <= searchIndex /\ searchIndex < Len(searchResults)

\* C34: setContent changes only the document content: editorHistory,
\* historyIndex, the replaying flag, the search state (searchResults,
\* searchIndex, currentSearchText) and the activeTable reference are left as
\* they were, and no history entry is recorded for the new document, by the
\* call or by its deferred wrapping step.
C34_SetContentKeepsState ==
    [][/\ call'.op = "setContent"
          => /\ UNCHANGED <<editorHistory, historyIndex, isPerformingUndoRedo,
                            searchResults, searchIndex, currentSearchText, activeTable>>
             /\ call'.recorded = 0
       /\ call'.op = "wrapUnwrappedText"
          => /\ UNCHANGED <<editorHistory, historyIndex>>
             /\ call'.recorded = 0
      ]_vars

\* setContent has replaced a document that had an active table and search
\* results, while no replay was going on, by one the history does not hold
C34_Witness ==
    /\ call.op = "setContent"
    /\ ~isPerformingUndoRedo
    /\ searchResults # <<>>
    /\ activeTable # 0
    /\ InnerHTML(editor) # EntryAt(editorHistory, historyIndex).content

\* C35: a table created by insertTable stays rectangular: after any sequence
\* of insert row above/below, insert column before/after, delete row and
\* delete column issued from the table toolbar, every row of the table has
\* the same number of cells.
C35_TablesStayRectangular ==
    \A i \in 1..Len(Tables(editor)) :
        LET rows == Rows(Tables(editor)[i])
        IN \A r, s \in 1..Len(rows) : Len(rows[r].kids) = Len(rows[s].kids)

\* C36: dragging a table only reorders: after a pointer move during a drag
\* the editor root has the same number of children as before, the children
\* other than the dragged table are the same and in the same order, and a
\* table that was a child of the root still is one.
C36_DragOnlyReorders ==
    [][(call'.op = "mousemove" /\ isDragging /\ activeTable \in TableIds(editor))
       => /\ Len(editor') = Len(editor)
          /\ WithoutTable(editor', activeTable) = WithoutTable(editor, activeTable)
          /\ IsChild(editor, activeTable) => IsChild(editor', activeTable)
      ]_vars

PointerOps == {"click", "startTableDrag", "startTableResize", "mousemove", "mouseup"}

\* One more deferred step of setContent, which registers the listeners, is
\* pending after the step
OneMoreRegistration ==
    LET Pending(ts) == Cardinality({i \in 1..Len(ts) : ts[i].kind = "wrapUnwrappedText"})
    IN Pending(timers') = Pending(timers) + 1

\* A listener that runs again on the event it has just handled changes
\* nothing and sends nothing: so k registered copies leave what one leaves
SecondCopyDoesNothing ==
    (call.op \in PointerOps /\ call'.op = call.op /\ call'.arg = call.arg)
    => /\ UNCHANGED <<editor, activeTable, isDragging, isResizing, dragStartY, tableStyle,
                      timers, tableToolbarVisible>>
       /\ call'.posted = 0

\* C37 as stated: every setContent call registers the table pointer handlers
\* once more; handling one pointer event with the handlers registered k times
\* yields the same editor state and the same notifications as handling it
\* with the handlers registered once.
C37_EverySetContentRegisters ==
    [][/\ call'.op = "setContent" => OneMoreRegistration
       /\ call'.op = "wrapUnwrappedText" => handlers' = Min(handlers + 1, MaxHandlers)
       /\ SecondCopyDoesNothing
      ]_vars

\* C37, amended: a setContent call registers the table pointer handlers once
\* more if its argument is not empty or blank, and not at all if it is;
\* handling one pointer event with the handlers registered k times yields the
\* same editor state and the same notifications as handling it with the
\* handlers registered once.
C37_RegisteredCopiesAgree ==
    [][/\ call'.op = "setContent"
          => IF Trim(MarkupChars(call'.arg)) = <<>>
             THEN timers' = timers
             ELSE OneMoreRegistration
       /\ call'.op = "wrapUnwrappedText" => handlers' = Min(handlers + 1, MaxHandlers)
       /\ SecondCopyDoesNothing
      ]_vars

\* With the listeners registered twice, a pointer move has put the dragged
\* table at another place
C37_Witness ==
    /\ handlers >= 2
    /\ call.op = "mousemove"
    /\ call.posted = 1
    /\ isDragging
    /\ dragStartY = call.arg[1]

\* C38: once all pending messages and deferred steps have been processed, the
\* host's table toolbar is visible exactly when the editor has an active
\* table that is in the document.
C38_ToolbarShownIffActiveTable ==
    timers = <<>> => (tableToolbarVisible <=> activeTable \in TableIds(editor))

\* The boundary point restoreSelection chooses for an offset lies in a text
\* node, within its length, and the lengths of the text nodes before it plus
\* the offset in the node make the offset asked for
InTextNode(ns, charOffset) ==
    LET values == TextNodes(ns)
        pos == GetNodeAndOffsetAtCharacterOffset(ns, charOffset)
    IN /\ pos.node \in 1..Len(values)
       /\ pos.offset \in 0..Len(values[pos.node])
       /\ LengthBefore(values, pos.node - 1) + pos.offset = charOffset

\* C39, as stated: for every document and offsets 0 <= start <= end <= text
\* length, restoreSelection followed by saveSelection returns the same start
\* and end, and the position chosen for each offset lies in a text node, with
\* 0 <= node offset <= node length and the lengths of the preceding text nodes
\* plus the node offset equal to the offset.
C39_PositionAlwaysInTextNode ==
    [][(/\ call'.op = "restoreSelection"
        /\ call'.arg # <<>>
        /\ call'.arg[2] <= Len(TextContent(editor)))
       => /\ SaveSelection(selection') = Selection(call'.arg[1], call'.arg[2])
          /\ InTextNode(editor, call'.arg[1])
          /\ InTextNode(editor, call'.arg[2])
      ]_vars

\* C39, amended: restoreSelection followed by saveSelection returns the same
\* start and end for every document and offsets 0 <= start <= end <= text
\* length; in a document that has a text node the position chosen for each
\* offset lies in a text node as stated, and in a document without any text
\* node it is the editor element at the offset of the number of its children.
C39_SelectionRoundTrips ==
    [][(/\ call'.op = "restoreSelection"
        /\ call'.arg # <<>>
        /\ call'.arg[2] <= Len(TextContent(editor)))
       => /\ SaveSelection(selection') = Selection(call'.arg[1], call'.arg[2])
          /\ \A k \in 1..2 :
                IF TextNodes(editor) # <<>>
                THEN InTextNode(editor, call'.arg[k])
                ELSE GetNodeAndOffsetAtCharacterOffset(editor, call'.arg[k])
                        = Position(0, Len(editor))
      ]_vars

\* restoreSelection has placed a selection that is not collapsed, starting
\* after the first text node of a highlighted text and ending at its end
C39_Witness ==
    /\ call.op = "restoreSelection"
    /\ call.arg # <<>>
    /\ call.ret = RetBool(TRUE)
    /\ 0 < call.arg[1]
    /\ call.arg[1] < call.arg[2]
    /\ call.arg[2] = Len(TextContent(editor))
    /\ GetNodeAndOffsetAtCharacterOffset(editor, call.arg[1]).node >= 2
    /\ selection = Selection(call.arg[1], call.arg[2])

====
